---- MODULE Spec2Model ----
(***************************************************************************)
(* Form classification / extraction / normalization pipeline of the ARNG   *)
(* hand-receipt tracker (services/gemini.ts, services/formAwareOCR.ts,     *)
(* services/enhancedFormDetection.ts, components/CaptureReceipt.tsx).      *)
(*                                                                         *)
(* Two specifications share this module:                                   *)
(*   Spec      the asynchronous pipeline: one extractDataFromImage call,   *)
(*             its gateway requests, and the capture screen applying the   *)
(*             result.                                                     *)
(*   SpecNorm  the synchronous stages (parse, normalize, validate, score)  *)
(*             applied to raw model output built up item by item.          *)
(***************************************************************************)
EXTENDS Integers, Sequences, FiniteSets, TLC

(***************************************************************************)
(* JavaScript values.  A number is held as twice its value (field h), so   *)
(* that halves such as 2.5 are representable; NaN has its own tag.         *)
(***************************************************************************)
Undef == [t |-> "undef"]
Null == [t |-> "null"]
NaN == [t |-> "nan"]
NumH(h) == [t |-> "num", h |-> h]
Num(k) == [t |-> "num", h |-> 2 * k]
Str(s) == [t |-> "str", s |-> s]
Bool(b) == [t |-> "bool", b |-> b]
Arr(a) == [t |-> "arr", a |-> a]
Obj(o) == [t |-> "obj", o |-> o]

IsNullish(v) == v.t \in {"undef", "null"}
IsInteger(v) == v.t = "num" /\ v.h % 2 = 0

\* ToBoolean: undefined, null, NaN, 0, "" and false are falsy.
Truthy(v) ==
  CASE v.t = "undef" -> FALSE
    [] v.t = "null" -> FALSE
    [] v.t = "nan" -> FALSE
    [] v.t = "num" -> v.h # 0
    [] v.t = "str" -> v.s # ""
    [] v.t = "bool" -> v.b
    [] OTHER -> TRUE

\* a || b
Or(a, b) == IF Truthy(a) THEN a ELSE b

\* v.f for a value that is not null/undefined (a primitive has no own fields).
Prop(v, f) == IF v.t = "obj" /\ f \in DOMAIN v.o THEN v.o[f] ELSE Undef

\* v?.f
OptProp(v, f) == IF IsNullish(v) THEN Undef ELSE Prop(v, f)

\* v.length
LengthOf(v) ==
  CASE v.t = "str" -> Num(Len(v.s))
    [] v.t = "arr" -> Num(Len(v.a))
    [] OTHER -> Undef

IsDigit(c) == c \in {"0", "1", "2", "3", "4", "5", "6", "7", "8", "9"}

DigitVal(c) ==
  CASE c = "0" -> 0 [] c = "1" -> 1 [] c = "2" -> 2 [] c = "3" -> 3 [] c = "4" -> 4
    [] c = "5" -> 5 [] c = "6" -> 6 [] c = "7" -> 7 [] c = "8" -> 8 [] c = "9" -> 9

CharAt(s, i) == SubSeq(s, i, i)

AllDigits(s) == \A i \in 1..Len(s) : IsDigit(CharAt(s, i))

RECURSIVE DigitsVal(_)
DigitsVal(s) ==
  IF Len(s) = 0 THEN 0
  ELSE 10 * DigitsVal(SubSeq(s, 1, Len(s) - 1)) + DigitVal(CharAt(s, Len(s)))

\* Decimal literal without sign: digits, or digits "." "0"|"5" (the halves the
\* number representation can hold).  Returns twice the value, or -1.
UnsignedTwice(s) ==
  IF Len(s) >= 1 /\ AllDigits(s) THEN 2 * DigitsVal(s)
  ELSE IF Len(s) >= 3 /\ CharAt(s, Len(s) - 1) = "."
          /\ AllDigits(SubSeq(s, 1, Len(s) - 2))
          /\ CharAt(s, Len(s)) \in {"0", "5"}
       THEN 2 * DigitsVal(SubSeq(s, 1, Len(s) - 2))
            + (IF CharAt(s, Len(s)) = "5" THEN 1 ELSE 0)
       ELSE -1

\* Number("..."): "" is 0, a decimal literal is its value, anything else NaN.
StrToNumber(s) ==
  IF s = "" THEN Num(0)
  ELSE IF CharAt(s, 1) = "-"
       THEN LET u == UnsignedTwice(SubSeq(s, 2, Len(s)))
            IN IF u < 0 THEN NaN ELSE NumH(0 - u)
       ELSE LET u == UnsignedTwice(s)
            IN IF u < 0 THEN NaN ELSE NumH(u)

\* Number(v)
ToNumber(v) ==
  CASE v.t = "undef" -> NaN
    [] v.t = "null" -> Num(0)
    [] v.t = "nan" -> NaN
    [] v.t = "num" -> v
    [] v.t = "bool" -> IF v.b THEN Num(1) ELSE Num(0)
    [] v.t = "str" -> StrToNumber(v.s)
    [] v.t = "arr" -> IF Len(v.a) = 0 THEN Num(0) ELSE NaN
    [] OTHER -> NaN

\* String(n) for a number: template literals print 3 as "3", 2.5 as "2.5".
NumToString(v) ==
  IF v.t = "nan" THEN "NaN"
  ELSE LET a == IF v.h < 0 THEN 0 - v.h ELSE v.h
           sign == IF v.h < 0 THEN "-" ELSE ""
       IN sign \o ToString(a \div 2) \o (IF a % 2 = 1 THEN ".5" ELSE "")

\* String(v) as a regular expression's test() or a template literal coerces it.
ToStr(v) ==
  CASE v.t = "str" -> v.s
    [] v.t \in {"num", "nan"} -> NumToString(v)
    [] v.t = "undef" -> "undefined"
    [] v.t = "null" -> "null"
    [] v.t = "bool" -> IF v.b THEN "true" ELSE "false"
    [] OTHER -> "[object Object]"

\* a > b, a >= b, a < b on values already coerced to numbers (NaN compares false).
NumGt(a, b) == a.t = "num" /\ b.t = "num" /\ a.h > b.h
NumGe(a, b) == a.t = "num" /\ b.t = "num" /\ a.h >= b.h
NumLt(a, b) == a.t = "num" /\ b.t = "num" /\ a.h < b.h

\* haystack.includes(needle)
Includes(hay, needle) ==
  \E i \in 1..(Len(hay) - Len(needle) + 1) : SubSeq(hay, i, i + Len(needle) - 1) = needle

\* Math.round(num / den) for num >= 0, den > 0: halves round up.
JsRound(num, den) == (2 * num + den) \div (2 * den)

Min(a, b) == IF a < b THEN a ELSE b

\* seq.map(f) is written [i \in 1..Len(seq) |-> f(seq[i])] at each use.
RECURSIVE SumSeq(_)
SumSeq(s) == IF Len(s) = 0 THEN 0 ELSE s[1] + SumSeq(Tail(s))

LowerChars == "abcdefghijklmnopqrstuvwxyz"
UpperChars == "ABCDEFGHIJKLMNOPQRSTUVWXYZ"

UpperChar(c) ==
  IF \E i \in 1..Len(LowerChars) : CharAt(LowerChars, i) = c
  THEN CharAt(UpperChars, CHOOSE i \in 1..Len(LowerChars) : CharAt(LowerChars, i) = c)
  ELSE c

\* s.toUpperCase()
RECURSIVE ToUpper(_)
ToUpper(s) == IF Len(s) = 0 THEN "" ELSE UpperChar(CharAt(s, 1)) \o ToUpper(SubSeq(s, 2, Len(s)))

\* s.trim().length = 0
IsBlank(s) == \A i \in 1..Len(s) : CharAt(s, i) \in {" ", "\n", "\t"}

(***************************************************************************)
(* Response text.  The free text of the inference service is a sequence of *)
(* tokens: prose (no braces, no backticks), a ```json fence, a bare ```    *)
(* fence, whitespace, and the serialization of one JSON value.             *)
(***************************************************************************)
Prose == [k |-> "prose"]
FenceJson == [k |-> "fence_json"]
Fence == [k |-> "fence"]
Ws == [k |-> "ws"]
Json(v) == [k |-> "json", v |-> v]

\* JSON.stringify drops undefined fields and writes NaN and undefined elements as null.
RECURSIVE Sanitize(_)
Sanitize(v) ==
  CASE v.t = "obj" ->
         Obj([f \in {g \in DOMAIN v.o : v.o[g].t # "undef"} |-> Sanitize(v.o[f])])
    [] v.t = "arr" ->
         Arr([i \in 1..Len(v.a) |-> IF v.a[i].t = "undef" THEN Null ELSE Sanitize(v.a[i])])
    [] v.t = "nan" -> Null
    [] OTHER -> v

\* JSON.stringify(v) for a defined v
Stringify(v) == <<Json(Sanitize(v))>>

NonWs(text) == SelectSeq(text, LAMBDA tok : tok.k # "ws")

\* JSON.parse(text) succeeds on one JSON value with optional surrounding whitespace.
JsonParseOk(text) == Len(NonWs(text)) = 1 /\ NonWs(text)[1].k = "json"
JsonParse(text) == NonWs(text)[1].v

RECURSIVE DropLeadingWs(_)
DropLeadingWs(text) ==
  IF Len(text) > 0 /\ text[1].k = "ws" THEN DropLeadingWs(Tail(text)) ELSE text

RECURSIVE DropTrailingWs(_)
DropTrailingWs(text) ==
  IF Len(text) > 0 /\ text[Len(text)].k = "ws"
  THEN DropTrailingWs(SubSeq(text, 1, Len(text) - 1))
  ELSE text

HasToken(text, k) == \E i \in 1..Len(text) : text[i].k = k

\* text.replace(/<fence>\s*/, ''): the first token of kind k and the whitespace after it go.
RemoveFirst(text, k) ==
  IF ~HasToken(text, k) THEN text
  ELSE LET i == CHOOSE j \in 1..Len(text) :
                  text[j].k = k /\ \A m \in 1..(j - 1) : text[m].k # k
       IN SubSeq(text, 1, i - 1) \o DropLeadingWs(SubSeq(text, i + 1, Len(text)))

\* text.replace(/```\s*$/, ''): a bare fence ending the text (whitespace after it) goes.
RemoveTrailingFence(text) ==
  LET core == DropTrailingWs(text)
  IN IF Len(core) > 0 /\ core[Len(core)].k = "fence"
     THEN SubSeq(core, 1, Len(core) - 1)
     ELSE text

\* enhancedFormDetection.ts parseOCIEData: the markdown code block wrapper is removed.
StripFence(result) ==
  IF HasToken(result, "fence_json")
  THEN RemoveTrailingFence(RemoveFirst(result, "fence_json"))
  ELSE IF HasToken(result, "fence")
       THEN RemoveTrailingFence(RemoveFirst(result, "fence"))
       ELSE result

(***************************************************************************)
(* Normalizers, validator and confidence scorer of                         *)
(* EnhancedFormDetectionService.  A function that can throw has a          *)
(* companion predicate ...Throws; its value is read only when that is      *)
(* false.                                                                  *)
(***************************************************************************)
\* Number(x) || 0
NumberOr0(x) == Or(ToNumber(x), Num(0))

\* x || null: a normalizer that leaves an absent text field without its default.
OrEmptyNull(x) == Or(x, Null)

\* x || ''
OrEmpty(x) == Or(x, Str(""))

\* Reading a property of null or undefined throws a TypeError.
normalizeItemThrows(item) == IsNullish(item)

normalizeDA2062Item(item) ==
  [ stockNumber |-> OrEmpty(Prop(item, "stockNumber")),
    itemDescription |-> OrEmpty(Prop(item, "itemDescription")),
    model |-> OrEmpty(Prop(item, "model")),
    securityCode |-> OrEmpty(Prop(item, "securityCode")),
    unitOfIssue |-> OrEmpty(Prop(item, "unitOfIssue")),
    quantityAuth |-> NumberOr0(Prop(item, "quantityAuth")),
    quantities |->
      [ A |-> NumberOr0(OptProp(Prop(item, "quantities"), "A")),
        B |-> NumberOr0(OptProp(Prop(item, "quantities"), "B")),
        C |-> NumberOr0(OptProp(Prop(item, "quantities"), "C")),
        D |-> NumberOr0(OptProp(Prop(item, "quantities"), "D")),
        E |-> NumberOr0(OptProp(Prop(item, "quantities"), "E")),
        F |-> NumberOr0(OptProp(Prop(item, "quantities"), "F")) ] ]

normalizeDA3161Item(item) ==
  [ itemNumber |-> NumberOr0(Prop(item, "itemNumber")),
    stockNumber |-> OrEmpty(Prop(item, "stockNumber")),
    itemDescription |-> OrEmpty(Prop(item, "itemDescription")),
    unitOfIssue |-> OrEmpty(Prop(item, "unitOfIssue")),
    quantity |-> NumberOr0(Prop(item, "quantity")),
    code |-> OrEmpty(Prop(item, "code")),
    supplyAction |-> OrEmpty(Prop(item, "supplyAction")),
    unitPrice |-> NumberOr0(Prop(item, "unitPrice")),
    totalCost |-> NumberOr0(Prop(item, "totalCost")) ]

getDefaultDA2062Data ==
  [ handReceiptNumber |-> Str(""), from |-> Str(""), to |-> Str(""),
    publicationDate |-> Str(""), items |-> <<>>, page |-> Str(""), totalPages |-> Str("") ]

getDefaultDA3161Data ==
  [ requestNumber |-> Str(""), voucherNumber |-> Str(""), sendTo |-> Str(""),
    dateRequired |-> Str(""), dodAAC |-> Str(""), priority |-> Str(""),
    requestFrom |-> Str(""), transactionType |-> Str("ISSUE"), items |-> <<>>,
    signature |-> Str(""), date |-> Str("") ]

\* The default record has no ocrConfidence (and no dodId, isSigned, extractionWarnings).
getDefaultOCIEData ==
  [ soldierName |-> Str(""), rankGrade |-> Str(""), ssnPid |-> Str(""), unit |-> Str(""),
    cifCode |-> Str(""), reportDate |-> Str(""), items |-> <<>>, signature |-> Str(""),
    statementDate |-> Str("") ]

getDefaultGenericData ==
  [ itemName |-> Str(""), borrowerName |-> Str(""), date |-> Str(""),
    serialNumber |-> Str(""), category |-> Str("Other"), condition |-> Str(""),
    notes |-> Str("") ]

\* Array.isArray(data.items) ? data.items : nothing to map
ItemsOf(data) == IF Prop(data, "items").t = "arr" THEN Prop(data, "items").a ELSE <<>>

\* What the try block of parseDA2062Data / parseDA3161Data throws on: text that is not
\* JSON, a parsed null, or a null list item reached by items.map.
parseFlatThrows(result) ==
  \/ ~JsonParseOk(result)
  \/ IsNullish(JsonParse(result))
  \/ \E i \in 1..Len(ItemsOf(JsonParse(result))) :
       normalizeItemThrows(ItemsOf(JsonParse(result))[i])

parseDA2062Data(result) ==
  IF parseFlatThrows(result) THEN getDefaultDA2062Data
  ELSE LET data == JsonParse(result)
       IN [ handReceiptNumber |-> OrEmpty(Prop(data, "handReceiptNumber")),
            from |-> OrEmpty(Prop(data, "from")),
            to |-> OrEmpty(Prop(data, "to")),
            publicationDate |-> OrEmpty(Prop(data, "publicationDate")),
            items |-> [i \in 1..Len(ItemsOf(data)) |-> normalizeDA2062Item(ItemsOf(data)[i])],
            page |-> OrEmpty(Prop(data, "page")),
            totalPages |-> OrEmpty(Prop(data, "totalPages")) ]

parseDA3161Data(result) ==
  IF parseFlatThrows(result) THEN getDefaultDA3161Data
  ELSE LET data == JsonParse(result)
       IN [ requestNumber |-> OrEmpty(Prop(data, "requestNumber")),
            voucherNumber |-> OrEmpty(Prop(data, "voucherNumber")),
            sendTo |-> OrEmpty(Prop(data, "sendTo")),
            dateRequired |-> OrEmpty(Prop(data, "dateRequired")),
            dodAAC |-> OrEmpty(Prop(data, "dodAAC")),
            priority |-> OrEmpty(Prop(data, "priority")),
            requestFrom |-> OrEmpty(Prop(data, "requestFrom")),
            transactionType |->
              IF Prop(data, "transactionType") = Str("TURN-IN")
              THEN Str("TURN-IN") ELSE Str("ISSUE"),
            items |-> [i \in 1..Len(ItemsOf(data)) |-> normalizeDA3161Item(ItemsOf(data)[i])],
            signature |-> OrEmpty(Prop(data, "signature")),
            date |-> OrEmpty(Prop(data, "date")) ]

\* parseGenericData: the inner catch answers text that is not JSON, the outer one a
\* parsed null (data.itemName throws); a parsed primitive has no fields.
parseGenericDataThrows(result) == ~JsonParseOk(result) \/ IsNullish(JsonParse(result))

parseGenericData(result) ==
  IF parseGenericDataThrows(result) THEN getDefaultGenericData
  ELSE LET data == JsonParse(result)
       IN [ itemName |-> OrEmpty(Prop(data, "itemName")),
            borrowerName |-> OrEmpty(Prop(data, "borrowerName")),
            date |-> OrEmpty(Prop(data, "date")),
            serialNumber |-> OrEmpty(Prop(data, "serialNumber")),
            category |-> Or(Prop(data, "category"), Str("Other")),
            condition |-> OrEmpty(Prop(data, "condition")),
            notes |-> OrEmpty(Prop(data, "notes")) ]

\* calculateItemConfidence: weights are held doubled (1.5 -> 3, 2 -> 4, 0.5 -> 1).
FullScore == 100
LinWeight2 == 3
NomenclatureWeight2 == 4
QuantitiesWeight2 == 4
BonusScore == 10
BonusWeight2 == 1
MinLinLength == 4
MinNomenclatureLength == 10

bonusFields == {"size", "nsn", "issuingCif"}

\* item[field].trim() on a truthy value that is no string throws.
calculateItemConfidenceThrows(item) ==
  \/ IsNullish(item)
  \/ \E f \in bonusFields : Truthy(Prop(item, f)) /\ Prop(item, f).t # "str"

\* const qty = item.quantities?.onHand || item.onHandQty
itemQty(item) == Or(OptProp(Prop(item, "quantities"), "onHand"), Prop(item, "onHandQty"))

linFieldScore(item) ==
  IF Truthy(Prop(item, "lin"))
     /\ NumGe(ToNumber(LengthOf(Prop(item, "lin"))), Num(MinLinLength))
  THEN FullScore ELSE 0

nomenclatureFieldScore(item) ==
  IF Truthy(Prop(item, "nomenclature"))
     /\ NumGt(ToNumber(LengthOf(Prop(item, "nomenclature"))), Num(MinNomenclatureLength))
  THEN FullScore ELSE 0

\* (qty && !isNaN(qty) && qty >= 0) ? 100 : 0
quantitiesFieldScore(item) ==
  IF Truthy(itemQty(item)) /\ ToNumber(itemQty(item)).t = "num"
     /\ NumGe(ToNumber(itemQty(item)), Num(0))
  THEN FullScore ELSE 0

bonusCount(item) ==
  Cardinality({f \in bonusFields : Truthy(Prop(item, f)) /\ ~IsBlank(Prop(item, f).s)})

calculateItemConfidence(item) ==
  LET score2 == linFieldScore(item) * LinWeight2
                + nomenclatureFieldScore(item) * NomenclatureWeight2
                + quantitiesFieldScore(item) * QuantitiesWeight2
                + 2 * BonusScore * bonusCount(item)
      totalWeight2 == LinWeight2 + NomenclatureWeight2 + QuantitiesWeight2
                      + BonusWeight2 * bonusCount(item)
  IN Min(100, JsRound(score2, totalWeight2))

\* Variant of isValidNSN that accepts every stock number.
isValidNSNAnyText(nsn) == TRUE

\* /^\d{4}-\d{2}-\d{3}-\d{4}$/.test(nsn)
isValidNSN(nsn) ==
  LET x == ToStr(nsn)
  IN /\ Len(x) = 16
     /\ \A i \in 1..16 : IF i \in {5, 8, 12} THEN CharAt(x, i) = "-" ELSE IsDigit(CharAt(x, i))

\* /^\d{4}$/.test(partialNsn)
isValidPartialNSN(partialNsn) == Len(ToStr(partialNsn)) = 4 /\ AllDigits(ToStr(partialNsn))

validSizes == {"LRG", "MED", "SML", "REG", "XS", "XL", "XXL", "SM", "LG"}

\* /^\d+.*\d*$/.test(size): the text starts with a digit (no line breaks in a size).
isNumericSize(size) == Len(size) >= 1 /\ IsDigit(CharAt(size, 1))

\* item.size?.toUpperCase() throws when size is neither nullish nor a string.
sizeThrows(item) == ~IsNullish(Prop(item, "size")) /\ Prop(item, "size").t # "str"

itemSize(item) ==
  IF IsNullish(Prop(item, "size")) THEN "" ELSE ToUpper(Prop(item, "size").s)

itemQuantities(item) ==
  [ authorized |->
      ToNumber(Or(Or(OptProp(Prop(item, "quantities"), "authorized"),
                     Prop(item, "onHandQty")), Num(0))),
    onHand |->
      ToNumber(Or(Or(OptProp(Prop(item, "quantities"), "onHand"),
                     Prop(item, "onHandQty")), Num(0))),
    dueOut |-> ToNumber(Or(OptProp(Prop(item, "quantities"), "dueOut"), Num(0))) ]

\* Variant of ohExceedsAuthIssue that leaves the authorized quantity out of the text.
ohExceedsAuthIssueOnHandOnly(q) == "OH QTY (" \o NumToString(q.onHand) \o ") > AUTH QTY"

ohExceedsAuthIssue(q) ==
  "OH QTY (" \o NumToString(q.onHand) \o ") > AUTH QTY (" \o NumToString(q.authorized) \o ")"

\* The quantity check of normalizeOCIEItem.
quantityIssues(q) ==
  (IF NumGt(q.onHand, q.authorized) THEN <<ohExceedsAuthIssue(q)>> ELSE <<>>)
  \o (IF NumLt(q.onHand, Num(0)) \/ NumLt(q.authorized, Num(0)) \/ NumLt(q.dueOut, Num(0))
      THEN <<"Negative quantity detected">> ELSE <<>>)

itemIssues(item) ==
  LET nsn == OrEmpty(Prop(item, "nsn"))
      partialNsn == OrEmpty(Prop(item, "partialNsn"))
      size == itemSize(item)
  IN (IF Truthy(nsn) /\ ~isValidNSN(nsn)
      THEN <<"Invalid NSN format: " \o ToStr(nsn)>> ELSE <<>>)
     \o (IF Truthy(partialNsn) /\ ~isValidPartialNSN(partialNsn)
         THEN <<"Invalid Partial NSN format: " \o ToStr(partialNsn)>> ELSE <<>>)
     \o quantityIssues(itemQuantities(item))
     \o (IF size # "" /\ ~(\E vs \in validSizes : Includes(size, vs)) /\ ~isNumericSize(size)
         THEN <<"Unusual size format: " \o size>> ELSE <<>>)

normalizeOCIEItemThrows(item) ==
  IsNullish(item) \/ sizeThrows(item) \/ calculateItemConfidenceThrows(item)

\* Variant of normalizeOCIEItem whose issues carry the time of the call.
normalizeOCIEItemTimedIssues(item, index, now) ==
  [ id |-> "ocie-item-" \o ToString(index) \o "-" \o ToString(now),
    lin |-> OrEmpty(Prop(item, "lin")),
    nsn |-> OrEmpty(Prop(item, "nsn")),
    partialNsn |-> OrEmpty(Prop(item, "partialNsn")),
    quantities |-> itemQuantities(item),
    confidence |-> calculateItemConfidence(item),
    issues |-> itemIssues(item) \o <<"Checked at " \o ToString(now)>> ]

\* index is the 0-based position given by items.map; now is Date.now().
normalizeOCIEItem(item, index, now) ==
  [ id |-> "ocie-item-" \o ToString(index) \o "-" \o ToString(now),
    issuingCif |-> OrEmpty(Prop(item, "issuingCif")),
    lin |-> OrEmpty(Prop(item, "lin")),
    size |-> Str(itemSize(item)),
    nomenclature |-> OrEmpty(Prop(item, "nomenclature")),
    edition |-> Prop(item, "edition"),
    fig |-> Prop(item, "fig"),
    withPc |-> Prop(item, "withPc"),
    partialNsn |-> OrEmpty(Prop(item, "partialNsn")),
    nsn |-> OrEmpty(Prop(item, "nsn")),
    quantities |-> itemQuantities(item),
    flags |->
      [ pcsTrans |-> Truthy(Or(OptProp(Prop(item, "flags"), "pcsTrans"), Prop(item, "pcsTrans"))),
        etsTrans |-> Truthy(Or(OptProp(Prop(item, "flags"), "etsTrans"), Prop(item, "etsTrans"))) ],
    confidence |-> calculateItemConfidence(item),
    issues |-> itemIssues(item) ]

headerFields == <<"soldierName", "rankGrade", "ssnPid", "unit", "cifCode", "reportDate">>

\* Variant of headerValue that reads the nested header object only.
headerValueNestedOnly(data, field) == OptProp(Prop(data, "header"), field)

\* const value = data.header?.[field] || data[field]
headerValue(data, field) == Or(OptProp(Prop(data, "header"), field), Prop(data, field))

\* value && value.trim().length > 0 ? 100 : 0
headerFieldScore(data, field) ==
  IF Truthy(headerValue(data, field)) /\ ~IsBlank(headerValue(data, field).s)
  THEN FullScore ELSE 0

calculateOCIEConfidenceThrows(data) ==
  \/ IsNullish(data)
  \/ \E i \in 1..Len(headerFields) :
       Truthy(headerValue(data, headerFields[i])) /\ headerValue(data, headerFields[i]).t # "str"
  \/ \E i \in 1..Len(ItemsOf(data)) : calculateItemConfidenceThrows(ItemsOf(data)[i])

calculateOCIEConfidence(data) ==
  LET headerScore ==
        JsRound(SumSeq([i \in 1..Len(headerFields) |-> headerFieldScore(data, headerFields[i])]),
                Len(headerFields))
      itemScores == [i \in 1..Len(ItemsOf(data)) |-> calculateItemConfidence(ItemsOf(data)[i])]
      itemsScore == IF Len(ItemsOf(data)) > 0
                    THEN JsRound(SumSeq(itemScores), Len(itemScores)) ELSE 0
  IN [ overall |-> JsRound(headerScore + itemsScore, 2),
       header |-> headerScore,
       items |-> itemsScore,
       fields |-> [f \in {headerFields[i] : i \in 1..Len(headerFields)} |->
                     headerFieldScore(data, f)] ]

\* parseFloat on the values a total can take here: a number, or a decimal string.
ParseFloat(v) == IF ToStr(v) = "" THEN NaN ELSE StrToNumber(ToStr(v))

itemWarnings(item, index) ==
  (IF ~Truthy(Prop(item, "lin"))
   THEN <<"Item " \o ToString(index + 1) \o ": Missing LIN">> ELSE <<>>)
  \o (IF ~Truthy(Prop(item, "nomenclature"))
      THEN <<"Item " \o ToString(index + 1) \o ": Missing nomenclature">> ELSE <<>>)
  \o (IF ~Truthy(OptProp(Prop(item, "quantities"), "onHand")) /\ ~Truthy(Prop(item, "onHandQty"))
      THEN <<"Item " \o ToString(index + 1) \o ": Missing on-hand quantity">> ELSE <<>>)

RECURSIVE allItemWarnings(_, _)
allItemWarnings(items, index) ==
  IF index >= Len(items) THEN <<>>
  ELSE itemWarnings(items[index + 1], index) \o allItemWarnings(items, index + 1)

validateOCIEData(data) ==
  (IF ~Truthy(OptProp(Prop(data, "header"), "soldierName")) /\ ~Truthy(Prop(data, "soldierName"))
   THEN <<"Missing soldier name">> ELSE <<>>)
  \o (IF ~Truthy(OptProp(Prop(data, "header"), "ssnPid")) /\ ~Truthy(Prop(data, "ssnPid"))
      THEN <<"Missing SSN/PID">> ELSE <<>>)
  \o (IF ~Truthy(OptProp(Prop(data, "header"), "unit")) /\ ~Truthy(Prop(data, "unit"))
      THEN <<"Missing unit information">> ELSE <<>>)
  \o (IF Len(ItemsOf(data)) = 0 THEN <<"No items found">>
      ELSE allItemWarnings(ItemsOf(data), 0))
  \o (IF Truthy(OptProp(Prop(data, "footer"), "totalValue"))
         /\ ParseFloat(OptProp(Prop(data, "footer"), "totalValue")).t = "nan"
      THEN <<"Invalid total value format">> ELSE <<>>)

\* What the try block of parseOCIEData throws on.
parseOCIEThrows(result) ==
  \/ ~JsonParseOk(StripFence(result))
  \/ calculateOCIEConfidenceThrows(JsonParse(StripFence(result)))
  \/ \E i \in 1..Len(ItemsOf(JsonParse(StripFence(result)))) :
       normalizeOCIEItemThrows(ItemsOf(JsonParse(StripFence(result)))[i])

parseOCIEData(result, now) ==
  IF parseOCIEThrows(result) THEN getDefaultOCIEData
  ELSE LET data == JsonParse(StripFence(result))
           header == Prop(data, "header")
           footer == Prop(data, "footer")
       IN [ soldierName |-> OrEmpty(Or(OptProp(header, "soldierName"), Prop(data, "soldierName"))),
            rankGrade |-> OrEmpty(Or(OptProp(header, "rankGrade"), Prop(data, "rankGrade"))),
            dodId |-> OrEmpty(OptProp(header, "dodId")),
            ssnPid |-> OrEmpty(Or(OptProp(header, "ssnPid"), Prop(data, "ssnPid"))),
            unit |-> OrEmpty(Or(OptProp(header, "unit"), Prop(data, "unit"))),
            cifCode |-> OrEmpty(Or(OptProp(header, "cifCode"), Prop(data, "cifCode"))),
            reportDate |-> OrEmpty(Or(OptProp(header, "reportDate"), Prop(data, "reportDate"))),
            items |-> [i \in 1..Len(ItemsOf(data)) |->
                         normalizeOCIEItem(ItemsOf(data)[i], i - 1, now)],
            totalValue |-> IF Truthy(OptProp(footer, "totalValue"))
                           THEN ParseFloat(OptProp(footer, "totalValue")) ELSE Undef,
            isSigned |-> Or(OptProp(footer, "isSigned"), Bool(FALSE)),
            signatureText |-> OrEmpty(Or(OptProp(footer, "signatureText"), Prop(data, "signature"))),
            statementDate |->
              OrEmpty(Or(OptProp(footer, "statementDate"), Prop(data, "statementDate"))),
            ocrConfidence |-> calculateOCIEConfidence(data),
            extractionWarnings |-> validateOCIEData(data) ]

(***************************************************************************)
(* parseRawTextToOCIE.  Its regular expressions are applied to free text;  *)
(* a raw text is given by what they find in it: scan.name is "named" when  *)
(* the name pattern matches with a name before the four digits, "bare"     *)
(* when only the digits follow the rank; scan.cif is "blank" when the CIF  *)
(* pattern captures whitespace only; scan.simple counts the distinct       *)
(* equipment words; matches are the captures of the detailed item pattern  *)
(* (parseInt of \d+ captures: natural numbers).  The fields derived from   *)
(* an item's description (lin, size, nomenclature, partialNsn) are left    *)
(* out of the item records.                                                *)
(***************************************************************************)
rawHeaderOf(scan) ==
  [ soldierName |-> IF scan.name = "named" THEN Str("willard wells") ELSE Str(""),
    ssnPid |-> IF scan.name # "none" THEN Str("1016") ELSE Str(""),
    rankGrade |-> IF scan.name # "none" THEN Str("CPT") ELSE Str(""),
    unit |-> IF scan.unit THEN Str("w90 hhc") ELSE Str(""),
    cifCode |-> IF scan.cif = "named" THEN Str("w90 cif")
                ELSE IF scan.homeCif THEN Str("fort bragg") ELSE Str("") ]

detailedItem(m, counter, cif) ==
  [ id |-> "ocie-item-" \o ToString(counter),
    issuingCif |-> cif,
    quantities |-> [authorized |-> Num(m.authorized), onHand |-> Num(m.onHand),
                    dueOut |-> Num(m.dueOut)],
    flags |-> [pcsTrans |-> m.dueOut > 0, etsTrans |-> FALSE],
    confidence |-> [overall |-> 90, header |-> 85, items |-> 95] ]

simpleItem(counter, cif) ==
  [ id |-> "ocie-item-" \o ToString(counter),
    issuingCif |-> cif,
    quantities |-> [authorized |-> Num(1), onHand |-> Num(1), dueOut |-> Num(0)],
    flags |-> [pcsTrans |-> FALSE, etsTrans |-> FALSE],
    confidence |-> [overall |-> 60, header |-> 50, items |-> 70] ]

rawItemsOf(scan, matches) ==
  IF Len(matches) > 0
  THEN [i \in 1..Len(matches) |-> detailedItem(matches[i], i, rawHeaderOf(scan).cifCode)]
  ELSE [i \in 1..scan.simple |-> simpleItem(i, rawHeaderOf(scan).cifCode)]

\* [soldierName, rankGrade, ssnPid, unit, cifCode].filter(Boolean).length
headerFieldsFound(h) ==
  Cardinality({f \in {"soldierName", "rankGrade", "ssnPid", "unit", "cifCode"} : Truthy(h[f])})

RawHeaderPoints == 20
RawItemPoints == 10
RawItemsStep == 20
RawHeaderCount == 5

rawConfidence(h, count) ==
  [ overall |-> Min(100, headerFieldsFound(h) * RawHeaderPoints + count * RawItemPoints),
    header |-> JsRound(headerFieldsFound(h) * 100, RawHeaderCount),
    items |-> IF count > 0 THEN Min(100, count * RawItemsStep) ELSE 0,
    fields |-> [ name |-> IF Truthy(h.soldierName) THEN 90 ELSE 0,
                 rank |-> IF Truthy(h.rankGrade) THEN 90 ELSE 0,
                 ssn |-> IF Truthy(h.ssnPid) THEN 80 ELSE 0,
                 unit |-> IF Truthy(h.unit) THEN 85 ELSE 0,
                 cif |-> IF Truthy(h.cifCode) THEN 85 ELSE 0,
                 items |-> IF count > 0 THEN 95 ELSE 0 ] ]

parseRawTextToOCIE(scan, matches) ==
  LET h == rawHeaderOf(scan)
      items == rawItemsOf(scan, matches)
  IN [ soldierName |-> h.soldierName, rankGrade |-> h.rankGrade, dodId |-> Str(""),
       ssnPid |-> h.ssnPid, unit |-> h.unit, cifCode |-> h.cifCode,
       reportDate |-> Str(""), items |-> items, totalValue |-> Undef,
       isSigned |-> Bool(FALSE), signatureText |-> Str(""), statementDate |-> Str(""),
       ocrConfidence |-> rawConfidence(h, Len(items)),
       extractionWarnings |->
         (IF Len(items) = 0
          THEN <<"No equipment items extracted from form - may need manual review">>
          ELSE <<>>)
         \o (IF headerFieldsFound(h) < 2
             THEN <<"Limited soldier information extracted">> ELSE <<>>) ]

(***************************************************************************)
(* GeminiOCRService (services/gemini.ts): response parsing and the record  *)
(* callGeminiDirectly builds from the parsed object.                       *)
(***************************************************************************)
LowerChar(c) ==
  IF \E i \in 1..Len(UpperChars) : CharAt(UpperChars, i) = c
  THEN CharAt(LowerChars, CHOOSE i \in 1..Len(UpperChars) : CharAt(UpperChars, i) = c)
  ELSE c

\* s.toLowerCase()
RECURSIVE ToLower(_)
ToLower(s) == IF Len(s) = 0 THEN "" ELSE LowerChar(CharAt(s, 1)) \o ToLower(SubSeq(s, 2, Len(s)))

\* text.match(/\{[\s\S]*\}/): from the first "{" to the last "}" of the text.  Only a
\* serialized object, or an array holding one, has braces (no string of the values
\* modelled holds a brace).
RECURSIVE HasBracesVal(_)
HasBracesVal(v) ==
  v.t = "obj" \/ (v.t = "arr" /\ \E i \in 1..Len(v.a) : HasBracesVal(v.a[i]))

HasBraces(tok) == tok.k = "json" /\ HasBracesVal(tok.v)

BraceSpanExists(text) == \E i \in 1..Len(text) : HasBraces(text[i])

BraceSpan(text) ==
  LET first == CHOOSE i \in 1..Len(text) :
                 HasBraces(text[i]) /\ \A j \in 1..(i - 1) : ~HasBraces(text[j])
      last == CHOOSE i \in 1..Len(text) :
                HasBraces(text[i]) /\ \A j \in (i + 1)..Len(text) : ~HasBraces(text[j])
  IN SubSeq(text, first, last)

\* Within one serialized value the span is the value itself when it is an object, and
\* the one brace-holding element of an array; a span over several elements is no JSON.
RECURSIVE SpanOf(_)
SpanOf(v) ==
  IF v.t = "obj" THEN [ok |-> TRUE, v |-> v]
  ELSE LET holders == {i \in 1..Len(v.a) : HasBracesVal(v.a[i])}
       IN IF Cardinality(holders) = 1
          THEN SpanOf(v.a[CHOOSE i \in holders : TRUE])
          ELSE [ok |-> FALSE, v |-> Null]

BraceSpanParses(text) ==
  BraceSpanExists(text) /\ Len(BraceSpan(text)) = 1 /\ SpanOf(BraceSpan(text)[1].v).ok

\* A parser without the second attempt on the brace span.
parseJsonResponseThrowsDirectOnly(text) == ~JsonParseOk(text)

parseJsonResponseThrows(text) == ~JsonParseOk(text) /\ ~BraceSpanParses(text)

parseJsonResponse(text) ==
  IF JsonParseOk(text) THEN JsonParse(text) ELSE SpanOf(BraceSpan(text)[1].v).v

\* formattedDate.match(/(\d{1,2})[\/\-](\d{1,2})[\/\-](\d{2,4})/): the leftmost match,
\* each group as long as it can be.  A match is <<start, len1, len2, len3>>.
IsDateSep(c) == c \in {"/", "-"}

DateMatchAt(s, i, a, b, c) ==
  /\ i + a + b + c + 1 <= Len(s)
  /\ AllDigits(SubSeq(s, i, i + a - 1))
  /\ IsDateSep(CharAt(s, i + a))
  /\ AllDigits(SubSeq(s, i + a + 1, i + a + b))
  /\ IsDateSep(CharAt(s, i + a + b + 1))
  /\ AllDigits(SubSeq(s, i + a + b + 2, i + a + b + c + 1))

DateMatches(s) ==
  {m \in (1..Len(s)) \X (1..2) \X (1..2) \X (2..4) : DateMatchAt(s, m[1], m[2], m[3], m[4])}

\* Leftmost start, then the longest first group, second group, third group.
DateBetter(m, n) ==
  \/ m[1] < n[1]
  \/ m[1] = n[1] /\ m[2] > n[2]
  \/ m[1] = n[1] /\ m[2] = n[2] /\ m[3] > n[3]
  \/ m[1] = n[1] /\ m[2] = n[2] /\ m[3] = n[3] /\ m[4] >= n[4]

PadStart2(s) == IF Len(s) < 2 THEN "0" \o s ELSE s

\* MM/DD/YYYY to YYYY-MM-DD; text without a date is kept as it is.
formatDate(s) ==
  IF DateMatches(s) = {} THEN s
  ELSE LET m == CHOOSE x \in DateMatches(s) : \A y \in DateMatches(s) : DateBetter(x, y)
           month == SubSeq(s, m[1], m[1] + m[2] - 1)
           day == SubSeq(s, m[1] + m[2] + 1, m[1] + m[2] + m[3])
           yr == SubSeq(s, m[1] + m[2] + m[3] + 2, m[1] + m[2] + m[3] + m[4] + 1)
           year == IF Len(yr) = 2
                   THEN (IF DigitsVal(yr) >= 50 THEN "19" \o yr ELSE "20" \o yr)
                   ELSE yr
       IN year \o "-" \o PadStart2(month) \o "-" \o PadStart2(day)

\* After a successful response callGeminiDirectly throws on: text that holds no JSON,
\* a parsed null (jsonData.date), or a truthy date that is no string (date.match).
directResultThrows(text) ==
  \/ parseJsonResponseThrows(text)
  \/ IsNullish(parseJsonResponse(text))
  \/ (Truthy(Prop(parseJsonResponse(text), "date"))
      /\ Prop(parseJsonResponse(text), "date").t # "str")

directResult(text) ==
  LET jsonData == parseJsonResponse(text)
      date == OrEmpty(Prop(jsonData, "date"))
  IN Obj([ itemName |-> OrEmpty(Prop(jsonData, "itemName")),
           borrowerName |-> OrEmpty(Prop(jsonData, "borrowerName")),
           date |-> Str(formatDate(date.s)),
           serialNumber |-> OrEmpty(Prop(jsonData, "serialNumber")),
           category |-> Or(Prop(jsonData, "category"), Str("Other")),
           condition |-> OrEmpty(Prop(jsonData, "condition")),
           notes |-> OrEmpty(Prop(jsonData, "notes")) ])

(***************************************************************************)
(* Classification (EnhancedFormDetectionService.callGeminiForFormType and  *)
(* detectFormType).                                                        *)
(***************************************************************************)
FormTypes == {"DA2062", "DA3161", "OCIE", "Generic"}

da2062Patterns ==
  << "hand receipt", "annex number", "da form 2062", "from:", "to:", "stock number",
     "item description", "publication", "hand receipt/annex number" >>

da3161Patterns ==
  << "request for issue", "turn-in", "dodaac", "da form 3161", "request no.",
     "voucher no.", "send to:", "request from:", "priority" >>

ociePatterns ==
  << "rank/grade", "ssn/pid", "cif code", "lin", "nomenclature", "da form 3645",
     "organizational clothing", "individual equipment", "name:", "unit:", "issuing cif",
     "size", "partial nsn", "auth qty", "oh qty", "due out", "pcs trans", "ets trans",
     "body armor", "fragmentation", "ocie record", "central issue facility", "cif",
     "dod id", "liability", "size/measurements", "issue", "turn-in", "oh qty",
     "authorized", "item description" >>

DA2062Threshold == 2
DA3161Threshold == 2
OCIEThreshold == 1

\* Array.prototype.join writes null and undefined as the empty string.
joinField(v) == IF IsNullish(v) THEN "" ELSE ToStr(v)

\* [itemName, borrowerName, serialNumber, condition, notes].join(' ').toLowerCase()
formText(result) ==
  ToLower(joinField(Prop(result, "itemName")) \o " " \o joinField(Prop(result, "borrowerName"))
          \o " " \o joinField(Prop(result, "serialNumber")) \o " "
          \o joinField(Prop(result, "condition")) \o " " \o joinField(Prop(result, "notes")))

\* patterns.filter(pattern => text.includes(pattern)).length
patternScore(patterns, text) ==
  Cardinality({i \in 1..Len(patterns) : Includes(text, patterns[i])})

\* Variant of scoreFormType without the minimum counts of the two first form types.
scoreFormTypeAnyMatch(text) ==
  IF patternScore(da2062Patterns, text) >= 1 THEN "DA2062"
  ELSE IF patternScore(da3161Patterns, text) >= 1 THEN "DA3161"
  ELSE IF patternScore(ociePatterns, text) >= OCIEThreshold THEN "OCIE"
  ELSE "Generic"

scoreFormType(text) ==
  IF patternScore(da2062Patterns, text) >= DA2062Threshold THEN "DA2062"
  ELSE IF patternScore(da3161Patterns, text) >= DA3161Threshold THEN "DA3161"
  ELSE IF patternScore(ociePatterns, text) >= OCIEThreshold THEN "OCIE"
  ELSE "Generic"

\* Variant of callGeminiForFormTypeResult that also reads the date of the result, a
\* field that is not part of the text scored.
callGeminiForFormTypeReadsDate(ok, result) ==
  IF ~ok \/ IsNullish(result) \/ Truthy(Prop(result, "date")) THEN "Generic"
  ELSE scoreFormType(formText(result))

\* Variant of callGeminiForFormTypeResult whose failure answer is a specific form type.
callGeminiForFormTypeFailsToHandReceipt(ok, result) ==
  IF ~ok \/ IsNullish(result) THEN "DA2062" ELSE scoreFormType(formText(result))

\* callGeminiForFormType given the outcome of the generic service call: a failed call
\* and a null result (result.itemName throws) are caught and answered 'Generic'.
callGeminiForFormTypeResult(ok, result) ==
  IF ~ok \/ IsNullish(result) THEN "Generic" ELSE scoreFormType(formText(result))

\* detectFormType: the label is upper-cased and matched by containment.
detectFormTypeOf(label) ==
  LET cleanedResult == ToUpper(label)
  IN IF Includes(cleanedResult, "DA2062") \/ Includes(cleanedResult, "HAND RECEIPT")
     THEN "DA2062"
     ELSE IF Includes(cleanedResult, "DA3161") \/ Includes(cleanedResult, "REQUEST FOR ISSUE")
          THEN "DA3161"
          ELSE IF \/ Includes(cleanedResult, "OCIE") \/ Includes(cleanedResult, "3645")
                  \/ Includes(cleanedResult, "RANK/GRADE") \/ Includes(cleanedResult, "SSN/PID")
               THEN "OCIE"
               ELSE "Generic"

\* FormAwareOCRService.makeGeminiCall is a stub: the detection prompt does not hold
\* 'Detect form type', so it answers '{}'; an unreadable file makes it reject.
formAwareDetectLabel == "{}"

\* FormAwareOCRService.detectFormType: the label is matched as above (without the
\* RANK/GRADE and SSN/PID synonyms); a rejected call is caught and answered 'Generic'.
formAwareDetectFormType(readable) ==
  LET cleanedResult == ToUpper(formAwareDetectLabel)
  IN IF ~readable THEN "Generic"
     ELSE IF Includes(cleanedResult, "DA2062") \/ Includes(cleanedResult, "HAND RECEIPT")
          THEN "DA2062"
          ELSE IF Includes(cleanedResult, "DA3161")
                  \/ Includes(cleanedResult, "REQUEST FOR ISSUE")
               THEN "DA3161"
               ELSE IF Includes(cleanedResult, "OCIE") \/ Includes(cleanedResult, "3645")
                    THEN "OCIE"
                    ELSE "Generic"

(***************************************************************************)
(* What the inference gateway can answer.  A response has a status: the    *)
(* request throws (network error), answers with an error status, or        *)
(* answers ok; an ok response has a body that is unreadable (json()        *)
(* rejects) or holds a text, possibly empty.                               *)
(***************************************************************************)
GenericPlain ==
  Obj([ itemName |-> Str("M4 Carbine"), borrowerName |-> Str("SGT Smith"),
        date |-> Str("3/15/24"), category |-> Str("Weapons") ])
GenericHandReceipt ==
  Obj([ itemName |-> Str("Rifle"), notes |-> Str("HAND RECEIPT/ANNEX NUMBER 12") ])
GenericTurnIn ==
  Obj([ notes |-> Str("Request for issue or turn-in, DODAAC W90") ])
GenericBadDate == Obj([ itemName |-> Str("Radio"), date |-> Num(5) ])
GenericOcie == Obj([ borrowerName |-> Str("CPT Wells"), notes |-> Str("rank/grade cpt") ])

HandReceiptAnswer ==
  Obj([ to |-> Str("SGT Smith"),
        items |-> Arr(<< Obj([ stockNumber |-> Str("1005-01-231-0001"),
                               quantities |-> Obj([A |-> Str("2")]) ]) >>) ])
TurnInAnswer ==
  Obj([ requestNumber |-> Str("R-1"), transactionType |-> Str("TURN-IN"),
        items |-> Arr(<< Obj([ itemNumber |-> Num(1), quantity |-> Num(-3) ]), Null >>) ])
OcieAnswer ==
  Obj([ header |-> Obj([ soldierName |-> Str("WELLS") ]), unit |-> Str("HHC"),
        items |-> Arr(<< Obj([ lin |-> Str("B05008"), nomenclature |-> Str("BODY ARMOR FRAG"),
                               size |-> Str("lrg ocp"),
                               quantities |-> Obj([ authorized |-> Num(1), onHand |-> Num(3),
                                                    dueOut |-> Num(0) ]) ]) >>) ])

ModelTexts ==
  { <<>>,
    <<Prose>>,
    <<Json(Null)>>,
    <<Json(GenericPlain)>>,
    <<Json(GenericHandReceipt)>>,
    <<Prose, Ws, FenceJson, Ws, Json(GenericTurnIn), Ws, Fence>>,
    <<Json(GenericBadDate)>>,
    <<Json(GenericOcie)>>,
    <<Json(HandReceiptAnswer)>>,
    <<Json(TurnInAnswer)>>,
    <<FenceJson, Ws, Json(OcieAnswer), Ws, Fence>>,
    <<Prose, Ws, Json(OcieAnswer)>> }

ThrowResponse == [st |-> "throw", readable |-> FALSE, text |-> <<>>]
ErrResponse == [st |-> "err", readable |-> TRUE, text |-> <<Prose>>]
OkResponse(text) == [st |-> "ok", readable |-> TRUE, text |-> text]
UnreadableResponse == [st |-> "ok", readable |-> FALSE, text |-> <<>>]

ModelResponses ==
  {ThrowResponse, ErrResponse, UnreadableResponse} \cup {OkResponse(t) : t \in ModelTexts}

\* The body of /api/gemini-ocr is JSON: any single serialized value.
ServerTexts ==
  { <<Json(Null)>>, <<Json(GenericPlain)>>, <<Json(GenericHandReceipt)>>,
    <<Json(GenericTurnIn)>>, <<Json(GenericBadDate)>>, <<Json(GenericOcie)>>,
    <<Json(Obj(<<>>))>> }

ServerResponses ==
  {ThrowResponse, ErrResponse, UnreadableResponse} \cup {OkResponse(t) : t \in ServerTexts}

modelNames ==
  << "gemini-2.5-flash", "gemini-2.0-flash-exp", "gemini-2.0-flash", "gemini-2.5-pro",
     "gemini-2.5-flash-preview-05-20" >>

extractionModel == "gemini-2.0-flash"
serverEndpoint == "/api/gemini-ocr"

\* Values of Date.now() the model distinguishes.
MaxNow == 2
Clock == 1..MaxNow

(***************************************************************************)
(* State.                                                                  *)
(***************************************************************************)
VARIABLES
  svc,                \* the service whose extractDataFromImage is called
  isProduction,       \* import.meta.env.PROD
  hasKey,             \* import.meta.env.VITE_GEMINI_API_KEY is set
  fileOk,             \* FileReader can read the image (fileToBase64 resolves)
  pc,                 \* where extractDataFromImage stands
  formType,           \* const formType of extractDataFromImage, "None" until assigned
  site,               \* the caller awaiting the gateway: which await is pending
  gpc,                \* where geminiOCRService.extractDataFromImage stands
  gidx,               \* index of the loop over modelNames
  gresp,              \* let response of callGeminiDirectly: "unset", "err" or "ok"
  tried,              \* statuses of the candidates tried in the current call, in order
  inflight,           \* gateway requests issued and not yet answered
  requested,          \* targets of the requests issued by this invocation, in order
  outstanding,        \* the request issued last and not yet answered: [to, site, classified]
  gout,               \* outcome of the generic service call: [ok, data]
  gret,               \* how the last generic service call ended: [mode, tried, resp, ok]
  xtext,              \* the text callGeminiForExtraction returned last
  result,             \* what extractDataFromImage returned: [formType, data]
  selectedFormType,   \* capture screen state
  userManuallySelected,
  detectedFormType,
  extractedData,
  isProcessing,
  nPc,                \* SpecNorm: "input", "parsed" or "rawParsed"
  nForm,              \* SpecNorm: the form type whose normalizer runs
  nWrap,              \* SpecNorm: how the response text wraps the JSON object
  nHeader,            \* SpecNorm: the header part of the raw object
  nItems,             \* SpecNorm: the raw item list
  nOut,               \* SpecNorm: the normalized record
  lsLegacy,           \* localStorage["arng_hand_receipts"]: [has, text]
  lsNew,              \* localStorage["arng_form_receipts"]: [has, text]
  lsVersion,          \* localStorage["arng_storage_migration_version"]: [has, text]
  lsBackups,          \* the entries "arng_hand_receipts_backup_<ts>": set of [ts, text]
  mpc,                \* where performMigration stands
  mLegacy,            \* const legacyReceipts of performMigration
  mMigrated,          \* const migratedReceipts of performMigration
  mResult,            \* const result of performMigration: [success, migratedCount, errors]
  mStart,             \* the storage when performMigration was entered, and how the run before ended
  mounted,            \* CameraCapture is mounted: videoRef.current is the video element
  isStreaming,        \* CameraCapture state
  facingMode,         \* CameraCapture state
  streamRef,          \* streamRef.current: 0 for null, else the index of the stream in media
  media,              \* the getUserMedia calls of the component: [mode, st], in order
  mountTimer,         \* the timer of the mount effect is pending
  restartTimers,      \* pending setTimeout(startCamera, 100): the facing mode of each closure
  showTimers,         \* pending setTimeout(showVideo, 100)
  mediaEvents,        \* loadedmetadata and canplay events the video element can still fire
  switched            \* switchCamera was invoked while the camera was streaming

envVars == <<svc, isProduction, hasKey, fileOk>>
callVars == <<pc, formType, site, result, xtext>>
gateVars == <<gpc, gidx, gresp, tried, inflight, requested, outstanding, gout, gret>>
screenVars == <<selectedFormType, userManuallySelected, detectedFormType, extractedData,
                isProcessing>>
normVars == <<nPc, nForm, nWrap, nHeader, nItems, nOut>>
migVars == <<lsLegacy, lsNew, lsVersion, lsBackups, mpc, mLegacy, mMigrated, mResult, mStart>>
camVars == <<mounted, isStreaming, facingMode, streamRef, media, mountTimer, restartTimers,
             showTimers, mediaEvents, switched>>
vars == <<envVars, callVars, gateVars, screenVars, normVars, migVars, camVars>>

(***************************************************************************)
(* Capture screen (components/CaptureReceipt.tsx).  A record handed to the *)
(* screen is a JavaScript object: Obj(record).                             *)
(***************************************************************************)
createInitialFormData(ft) ==
  CASE ft = "DA2062" -> Obj(getDefaultDA2062Data)
    [] ft = "DA3161" -> Obj(getDefaultDA3161Data)
    [] ft = "OCIE" -> Obj(getDefaultOCIEData)
    [] OTHER -> Obj(getDefaultGenericData)

\* genericData.serialNumber on null throws; the default branch only returns genericData.
convertGenericToFormTypeThrows(genericData, ft) ==
  ft \in {"DA2062", "DA3161", "OCIE"} /\ IsNullish(genericData)

convertGenericToFormType(genericData, ft) ==
  CASE ft = "DA2062" ->
         Obj([ handReceiptNumber |-> OrEmpty(Prop(genericData, "serialNumber")),
               from |-> Str(""),
               to |-> OrEmpty(Prop(genericData, "borrowerName")),
               publicationDate |-> OrEmpty(Prop(genericData, "date")),
               items |->
                 IF Truthy(Prop(genericData, "itemName"))
                 THEN << [ stockNumber |-> OrEmpty(Prop(genericData, "serialNumber")),
                           itemDescription |-> OrEmpty(Prop(genericData, "itemName")),
                           model |-> Str(""), securityCode |-> Str(""),
                           unitOfIssue |-> Str(""), quantityAuth |-> Num(1),
                           quantities |-> [ A |-> Num(1), B |-> Num(0), C |-> Num(0),
                                            D |-> Num(0), E |-> Num(0), F |-> Num(0) ] ] >>
                 ELSE <<>>,
               page |-> Str(""), totalPages |-> Str("") ])
    [] ft = "DA3161" ->
         Obj([ requestNumber |-> OrEmpty(Prop(genericData, "serialNumber")),
               voucherNumber |-> Str(""), sendTo |-> Str(""),
               dateRequired |-> OrEmpty(Prop(genericData, "date")),
               dodAAC |-> Str(""), priority |-> Str(""),
               requestFrom |-> OrEmpty(Prop(genericData, "borrowerName")),
               transactionType |-> Str("ISSUE"),
               items |->
                 IF Truthy(Prop(genericData, "itemName"))
                 THEN << [ itemNumber |-> Num(1),
                           stockNumber |-> OrEmpty(Prop(genericData, "serialNumber")),
                           itemDescription |-> OrEmpty(Prop(genericData, "itemName")),
                           unitOfIssue |-> Str(""), quantity |-> Num(1), code |-> Str(""),
                           supplyAction |-> Str(""), unitPrice |-> Num(0),
                           totalCost |-> Num(0) ] >>
                 ELSE <<>>,
               signature |-> Str(""),
               date |-> OrEmpty(Prop(genericData, "date")) ])
    [] ft = "OCIE" ->
         Obj([ soldierName |-> OrEmpty(Prop(genericData, "borrowerName")),
               rankGrade |-> Str(""),
               ssnPid |-> OrEmpty(Prop(genericData, "serialNumber")),
               unit |-> Str(""), cifCode |-> Str(""),
               reportDate |-> OrEmpty(Prop(genericData, "date")),
               items |->
                 IF Truthy(Prop(genericData, "itemName"))
                 THEN << [ issuingCif |-> Str(""), lin |-> Str(""), size |-> Str(""),
                           nomenclature |-> OrEmpty(Prop(genericData, "itemName")),
                           nsn |-> OrEmpty(Prop(genericData, "serialNumber")),
                           onHandQty |-> Num(1), pcsTrans |-> FALSE, etsTrans |-> FALSE ] >>
                 ELSE <<>>,
               signature |-> Str(""),
               statementDate |-> OrEmpty(Prop(genericData, "date")) ])
    [] OTHER -> genericData

\* processImage keeps the user's choice only when it was made by hand and differs.
appliesDetected(manual, selected, detected) == ~manual \/ selected = detected

\* The Select's onValueChange (disabled while processing).
SelectFormType(value) ==
  /\ svc = "enhanced"
  /\ pc \in {"idle", "applied"}
  /\ ~isProcessing
  /\ selectedFormType' = value
  /\ userManuallySelected' = TRUE
  /\ extractedData' = [formType |-> value, data |-> createInitialFormData(value)]
  /\ detectedFormType' = "null"
  /\ isProcessing' = isProcessing
  /\ UNCHANGED <<envVars, callVars, gateVars, normVars, migVars, camVars>>

\* processImage after the await: the try block up to the first throw, else the catch
\* block, then finally.
ApplyResult ==
  /\ pc \in {"returned", "threw"}
  /\ svc = "enhanced"
  /\ pc' = "applied"
  /\ isProcessing' = FALSE
  /\ userManuallySelected' = userManuallySelected
  /\ IF pc = "returned" /\ appliesDetected(userManuallySelected, selectedFormType,
                                           result.formType)
     THEN /\ detectedFormType' = result.formType
          /\ selectedFormType' = result.formType
          /\ extractedData' = [formType |-> result.formType, data |-> result.data]
     ELSE IF pc = "returned"
             /\ ~convertGenericToFormTypeThrows(result.data, selectedFormType)
          THEN /\ detectedFormType' = result.formType
               /\ selectedFormType' = selectedFormType
               /\ extractedData' =
                    [ formType |-> selectedFormType,
                      data |-> convertGenericToFormType(result.data, selectedFormType) ]
          ELSE /\ detectedFormType' = "null"
               /\ selectedFormType' = selectedFormType
               /\ extractedData' = [ formType |-> selectedFormType,
                                     data |-> Obj(getDefaultGenericData) ]
  /\ UNCHANGED <<envVars, formType, site, result, xtext, gateVars, normVars, migVars, camVars>>

\* What Retake Photo hands to setExtractedData: the flat fields, with no formType and
\* no data, so both read as undefined.
retakeExtractedData ==
  [formType |-> "undefined", data |-> Undef] @@ getDefaultGenericData

\* The Retake Photo button, shown with the photo preview (processImage has read the
\* file): setPhotoPreview(null), setExtractedData({ itemName: "", ... }).
RetakePhoto ==
  /\ svc = "enhanced"
  /\ pc # "idle"
  /\ extractedData' = retakeExtractedData
  /\ UNCHANGED <<selectedFormType, userManuallySelected, detectedFormType, isProcessing>>
  /\ UNCHANGED <<envVars, callVars, gateVars, normVars, migVars, camVars>>

(***************************************************************************)
(* geminiOCRService.extractDataFromImage (services/gemini.ts): the generic *)
(* service call, entered with gpc = "begin" by each of its callers.        *)
(***************************************************************************)
\* In production, or without an API key, the call goes to the serverless function.
usesServer(production, key) == production \/ ~key

\* Variant of settleRequest in which an answered request stays outstanding.
settleRequestKeeps(n) == n

\* A request leaves for the gateway / its answer arrives.
issueRequest(n) == n + 1
settleRequest(n) == n - 1

RequestTo(target) == [to |-> target, site |-> site, classified |-> formType # "None"]

NoRequest == [to |-> "", site |-> "none", classified |-> FALSE]

NoOutcome == [ok |-> FALSE, data |-> Undef]
NoReturn == [mode |-> "none", tried |-> <<>>, resp |-> ThrowResponse, ok |-> FALSE]

\* fileToBase64 comes first: an unreadable file fails the call before any request.
GBegin ==
  /\ gpc = "begin"
  /\ IF ~fileOk
     THEN /\ gpc' = "done"
          /\ gout' = NoOutcome
          /\ gret' = [ mode |-> IF usesServer(isProduction, hasKey) THEN "server" ELSE "direct",
                       tried |-> <<>>, resp |-> ThrowResponse, ok |-> FALSE ]
          /\ UNCHANGED <<gidx, gresp, tried, inflight, requested, outstanding>>
     ELSE IF usesServer(isProduction, hasKey)
          THEN /\ gpc' = "waitServer"
               /\ inflight' = issueRequest(inflight)
               /\ requested' = Append(requested, serverEndpoint)
               /\ outstanding' = RequestTo(serverEndpoint)
               /\ UNCHANGED <<gidx, gresp, tried, gout, gret>>
          ELSE /\ gpc' = "loop"
               /\ gidx' = 1
               /\ gresp' = "unset"
               /\ tried' = <<>>
               /\ UNCHANGED <<inflight, requested, outstanding, gout, gret>>
  /\ UNCHANGED <<envVars, callVars, screenVars, normVars, migVars, camVars>>

\* callGeminiDirectly: fetch for the candidate modelNames[gidx].
GTryModel ==
  /\ gpc = "loop"
  /\ gpc' = "waitModel"
  /\ inflight' = issueRequest(inflight)
  /\ requested' = Append(requested, modelNames[gidx])
  /\ outstanding' = RequestTo(modelNames[gidx])
  /\ UNCHANGED <<gidx, gresp, tried, gout, gret>>
  /\ UNCHANGED <<envVars, callVars, screenVars, normVars, migVars, camVars>>

\* Variant of nextCandidate that asks the failed candidate again.
nextCandidateRetries(idx) == idx

\* for (const modelName of modelNames): the loop moves on to the next candidate.
nextCandidate(idx) == idx + 1

\* response is assigned only when fetch resolves; a throw leaves the earlier value.
responseAfter(previous, st) == IF st = "throw" THEN previous ELSE st

\* Variant of loopEnds without the break at an ok response.
loopEndsAfterLastOnly(st, idx) == idx = Len(modelNames)

\* Variant of loopEnds that goes on after an ok response and stops at a thrown request.
loopEndsAtThrow(st, idx) == st = "throw" \/ idx = Len(modelNames)

\* The loop stops at the first ok response (break) or after the last candidate.
loopEnds(st, idx) == st = "ok" \/ idx = Len(modelNames)

\* After the loop: !response || !response.ok throws; then the body must be readable,
\* hold a text, and the text must yield the record.
directCallSucceeds(response, r) ==
  response = "ok" /\ r.readable /\ r.text # <<>> /\ ~directResultThrows(r.text)

GModelResponds(r) ==
  /\ gpc = "waitModel"
  /\ inflight' = settleRequest(inflight)
  /\ requested' = requested
  /\ tried' = Append(tried, r.st)
  /\ gresp' = responseAfter(gresp, r.st)
  /\ IF loopEnds(r.st, gidx)
     THEN /\ gpc' = "done"
          /\ gidx' = gidx
          /\ gout' = IF directCallSucceeds(responseAfter(gresp, r.st), r)
                     THEN [ok |-> TRUE, data |-> directResult(r.text)]
                     ELSE NoOutcome
          /\ gret' = [ mode |-> "direct", tried |-> Append(tried, r.st), resp |-> r,
                       ok |-> directCallSucceeds(responseAfter(gresp, r.st), r) ]
     ELSE /\ gpc' = "loop"
          /\ gidx' = nextCandidate(gidx)
          /\ UNCHANGED <<gout, gret>>
  /\ outstanding' = NoRequest
  /\ UNCHANGED <<envVars, callVars, screenVars, normVars, migVars, camVars>>

\* callServerFunction: a thrown request, an error status and an unreadable body all
\* throw; otherwise the parsed body is returned as it is.
serverCallSucceeds(r) == r.st = "ok" /\ r.readable

GServerResponds(r) ==
  /\ gpc = "waitServer"
  /\ inflight' = settleRequest(inflight)
  /\ requested' = requested
  /\ gpc' = "done"
  /\ gout' = IF serverCallSucceeds(r)
             THEN [ok |-> TRUE, data |-> JsonParse(r.text)]
             ELSE NoOutcome
  /\ gret' = [mode |-> "server", tried |-> <<r.st>>, resp |-> r, ok |-> serverCallSucceeds(r)]
  /\ outstanding' = NoRequest
  /\ UNCHANGED <<gidx, gresp, tried>>
  /\ UNCHANGED <<envVars, callVars, screenVars, normVars, migVars, camVars>>

(***************************************************************************)
(* extractDataFromImage of EnhancedFormDetectionService and of             *)
(* FormAwareOCRService.                                                    *)
(***************************************************************************)
SpecificForms == {"DA2062", "DA3161", "OCIE"}

\* The post-parse normalizer of each specific form type.
parseByType(ft, text, now) ==
  CASE ft = "DA2062" -> Obj(parseDA2062Data(text))
    [] ft = "DA3161" -> Obj(parseDA3161Data(text))
    [] OTHER -> Obj(parseOCIEData(text, now))

\* Variant of resultFormType that answers 'Generic' on every path.
resultFormTypeAlwaysGeneric(at, ft) == "Generic"

\* return { formType, data } in the try block, { formType: 'Generic', data } in catch.
resultFormType(at, ft) == IF at = "catch" THEN "Generic" ELSE ft

\* FormAwareOCRService.extractGenericData reads the fields of what the service returned.
formAwareGenericThrows(extracted) == IsNullish(extracted)

formAwareGenericData(extracted) ==
  Obj([ itemName |-> OrEmpty(Prop(extracted, "itemName")),
        borrowerName |-> OrEmpty(Prop(extracted, "borrowerName")),
        date |-> OrEmpty(Prop(extracted, "date")),
        serialNumber |-> OrEmpty(Prop(extracted, "serialNumber")),
        category |-> Or(Prop(extracted, "category"), Str("Other")),
        condition |-> OrEmpty(Prop(extracted, "condition")),
        notes |-> OrEmpty(Prop(extracted, "notes")) ])

\* callGeminiForExtraction returns the text of an ok response that holds one.
directTextUsable(r) == r.st = "ok" /\ r.readable /\ r.text # <<>>

\* callGeminiForExtraction's fallback: JSON.stringify(result), or '{}' when it failed.
fallbackText(outcome) == IF outcome.ok THEN Stringify(outcome.data) ELSE <<Json(Obj(<<>>))>>

NoResult == [formType |-> "None", data |-> Undef]

\* processImage calls extractDataFromImage, which runs up to its first await.
StartExtraction ==
  /\ pc = "idle"
  /\ pc' = "detect"
  /\ formType' = "None"
  /\ result' = NoResult
  /\ xtext' = <<>>
  /\ isProcessing' = (svc = "enhanced")
  /\ IF svc = "enhanced"
     THEN site' = "formType" /\ gpc' = "begin"
     ELSE site' = "none" /\ gpc' = "none"
  /\ requested' = <<>>
  /\ UNCHANGED <<gidx, gresp, tried, inflight, outstanding, gout, gret>>
  /\ UNCHANGED <<envVars, selectedFormType, userManuallySelected, detectedFormType,
                 extractedData, normVars, migVars, camVars>>

\* FormAwareOCRService.detectFormType: no gateway request is made.
FormAwareDetect ==
  /\ pc = "detect"
  /\ svc = "formAware"
  /\ formType' = formAwareDetectFormType(fileOk)
  /\ pc' = "dispatch"
  /\ UNCHANGED <<site, result, xtext>>
  /\ UNCHANGED <<envVars, gateVars, screenVars, normVars, migVars, camVars>>

\* EnhancedFormDetectionService.detectFormType resumes with the generic service's outcome.
FormTypeReturn ==
  /\ pc = "detect"
  /\ site = "formType"
  /\ gpc = "done"
  /\ formType' = detectFormTypeOf(callGeminiForFormTypeResult(gout.ok, gout.data))
  /\ pc' = "dispatch"
  /\ site' = "none"
  /\ gpc' = "none"
  /\ UNCHANGED <<result, xtext>>
  /\ gidx' = 1
  /\ gresp' = "unset"
  /\ tried' = <<>>
  /\ gout' = NoOutcome
  /\ gret' = NoReturn
  /\ UNCHANGED <<inflight, requested, outstanding>>
  /\ UNCHANGED <<envVars, screenVars, normVars, migVars, camVars>>

\* switch (formType): the specific extractors start callGeminiForExtraction, which
\* falls back to the generic service at once when the file or the key is missing.
Dispatch ==
  /\ pc = "dispatch"
  /\ svc = "formAware" => formType = "Generic"
  /\ pc' = "extract"
  /\ IF formType \in SpecificForms /\ fileOk /\ hasKey
     THEN /\ site' = "direct"
          /\ gpc' = "none"
          /\ inflight' = issueRequest(inflight)
          /\ requested' = Append(requested, extractionModel)
          /\ outstanding' = [ to |-> extractionModel, site |-> "direct",
                              classified |-> formType # "None" ]
     ELSE /\ site' = IF formType \in SpecificForms THEN "extractFallback" ELSE "generic"
          /\ gpc' = "begin"
          /\ UNCHANGED <<inflight, requested, outstanding>>
  /\ UNCHANGED <<formType, result, xtext>>
  /\ UNCHANGED <<gidx, gresp, tried, gout, gret>>
  /\ UNCHANGED <<envVars, screenVars, normVars, migVars, camVars>>

\* callGeminiForExtraction resumes with the answer of its own request.
DirectResponds(r, now) ==
  /\ pc = "extract"
  /\ site = "direct"
  /\ inflight' = settleRequest(inflight)
  /\ requested' = requested
  /\ IF directTextUsable(r)
     THEN /\ xtext' = r.text
          /\ result' = [formType |-> resultFormType(pc, formType),
                        data |-> parseByType(formType, r.text, now)]
          /\ pc' = "returned"
          /\ site' = "none"
          /\ gpc' = gpc
     ELSE /\ site' = "extractFallback"
          /\ gpc' = "begin"
          /\ UNCHANGED <<pc, result, xtext>>
  /\ formType' = formType
  /\ outstanding' = NoRequest
  /\ UNCHANGED <<gidx, gresp, tried, gout, gret>>
  /\ UNCHANGED <<envVars, screenVars, normVars, migVars, camVars>>

\* callGeminiForExtraction resumes with the outcome of its fallback.
ExtractFallbackReturn(now) ==
  /\ pc = "extract"
  /\ site = "extractFallback"
  /\ gpc = "done"
  /\ xtext' = fallbackText(gout)
  /\ result' = [formType |-> resultFormType(pc, formType),
                data |-> parseByType(formType, fallbackText(gout), now)]
  /\ pc' = "returned"
  /\ site' = "none"
  /\ gpc' = "none"
  /\ formType' = formType
  /\ gidx' = 1
  /\ gresp' = "unset"
  /\ tried' = <<>>
  /\ gout' = NoOutcome
  /\ gret' = NoReturn
  /\ UNCHANGED <<inflight, requested, outstanding>>
  /\ UNCHANGED <<envVars, screenVars, normVars, migVars, camVars>>

\* extractGenericData resumes.  The enhanced service catches a failure and answers the
\* default record; the form-aware one lets it through: from the try block into the
\* catch block, which calls extractGenericData again, and from there to the caller.
GenericReturn ==
  /\ pc \in {"extract", "catch"}
  /\ site = "generic"
  /\ gpc = "done"
  /\ formType' = formType
  /\ xtext' = xtext
  /\ IF svc = "enhanced"
     THEN /\ result' = [formType |-> resultFormType(pc, formType),
                        data |-> IF gout.ok THEN gout.data ELSE Obj(getDefaultGenericData)]
          /\ pc' = "returned"
          /\ site' = "none"
          /\ gpc' = "none"
     ELSE IF gout.ok /\ ~formAwareGenericThrows(gout.data)
          THEN /\ result' = [formType |-> resultFormType(pc, formType),
                             data |-> formAwareGenericData(gout.data)]
               /\ pc' = "returned"
               /\ site' = "none"
               /\ gpc' = "none"
          ELSE IF pc = "extract"
               THEN /\ pc' = "catch"
                    /\ site' = "generic"
                    /\ gpc' = "begin"
                    /\ result' = result
               ELSE /\ pc' = "threw"
                    /\ site' = "none"
                    /\ gpc' = "none"
                    /\ result' = result
  /\ gidx' = 1
  /\ gresp' = "unset"
  /\ tried' = <<>>
  /\ gout' = NoOutcome
  /\ gret' = NoReturn
  /\ UNCHANGED <<inflight, requested, outstanding>>
  /\ UNCHANGED <<envVars, screenVars, normVars, migVars, camVars>>

Services == {"enhanced", "formAware"}

\* No invocation has begun; the capture screen shows its initial state.
CallIdle ==
  /\ pc = "idle"
  /\ formType = "None"
  /\ site = "none"
  /\ result = NoResult
  /\ xtext = <<>>
  /\ gpc = "none"
  /\ gidx = 1
  /\ gresp = "unset"
  /\ tried = <<>>
  /\ inflight = 0
  /\ requested = <<>>
  /\ outstanding = NoRequest
  /\ gout = NoOutcome
  /\ gret = NoReturn
  /\ selectedFormType = "Generic"
  /\ userManuallySelected = FALSE
  /\ detectedFormType = "null"
  /\ extractedData = [formType |-> "Generic", data |-> createInitialFormData("Generic")]
  /\ isProcessing = FALSE

\* localStorage.getItem(key): null for a key that is not stored, else its text.
NoItem == [has |-> FALSE]
Item(text) == [has |-> TRUE, text |-> text]

NoMigrationResult == [success |-> FALSE, migratedCount |-> 0, errors |-> 0]
NoMigrationStart == [legacy |-> NoItem, new |-> NoItem, version |-> NoItem, backups |-> {},
                     afterSuccess |-> FALSE, run |-> 0]

MigOff ==
  /\ lsLegacy = NoItem
  /\ lsNew = NoItem
  /\ lsVersion = NoItem
  /\ lsBackups = {}
  /\ mpc = "off"
  /\ mLegacy = <<>>
  /\ mMigrated = <<>>
  /\ mResult = NoMigrationResult
  /\ mStart = NoMigrationStart

CamOff ==
  /\ mounted = FALSE
  /\ isStreaming = FALSE
  /\ facingMode = "environment"
  /\ streamRef = 0
  /\ media = <<>>
  /\ mountTimer = FALSE
  /\ restartTimers = <<>>
  /\ showTimers = 0
  /\ mediaEvents = 0
  /\ switched = FALSE

NormOff ==
  /\ nPc = "off"
  /\ nForm = "None"
  /\ nWrap = "none"
  /\ nHeader = Undef
  /\ nItems = <<>>
  /\ nOut = Undef

\* The service in use, the build (import.meta.env.PROD), the API key and the image
\* file are given from outside.
Init ==
  /\ svc \in Services
  /\ isProduction \in BOOLEAN
  /\ hasKey \in BOOLEAN
  /\ fileOk \in BOOLEAN
  /\ CallIdle
  /\ NormOff
  /\ MigOff
  /\ CamOff

Next ==
  \/ \E value \in FormTypes : SelectFormType(value)
  \/ StartExtraction
  \/ FormAwareDetect
  \/ GBegin
  \/ GTryModel
  \/ \E r \in ModelResponses : GModelResponds(r)
  \/ \E r \in ServerResponses : GServerResponds(r)
  \/ FormTypeReturn
  \/ Dispatch
  \/ \E r \in ModelResponses, now \in Clock : DirectResponds(r, now)
  \/ \E now \in Clock : ExtractFallbackReturn(now)
  \/ GenericReturn
  \/ ApplyResult
  \/ RetakePhoto

Spec == Init /\ [][Next]_vars

\* The steps of one extractDataFromImage call.  Every gateway request resolves or
\* rejects, and a continuation that can run does run.
PipelineCall ==
  \/ FormAwareDetect \/ GBegin \/ GTryModel
  \/ \E r \in ModelResponses : GModelResponds(r)
  \/ \E r \in ServerResponses : GServerResponds(r)
  \/ Dispatch
  \/ \E r \in ModelResponses, now \in Clock : DirectResponds(r, now)

CallerResumes == gpc = "done" /\ gpc' = "none"

CallerCanResume == gpc = "done"

CallerResumesFairly == []<>(~CallerCanResume) \/ []<><<CallerResumes>>_vars

SpecLive == Spec /\ WF_vars(PipelineCall) /\ CallerResumesFairly

(***************************************************************************)
(* The parsers, normalizers, validator and scorer as pure functions: a raw *)
(* answer is drawn (form, header, wrapping, then item by item), and the    *)
(* parser of its form type is applied to it.                               *)
(***************************************************************************)
MaxItems == 2

NormForms == SpecificForms \cup {"Generic", "RawText", "Response", "Haystack"}
Wraps == {"plain", "fenced", "prose", "proseFenced", "trailing"}
ResponseWraps == Wraps \cup {"none"}

\* "proseFenced" is the shape "Here you go:\n```json\n{...}\n```"; "none" is a text
\* holding no JSON at all.
wrapText(wrap, v) ==
  CASE wrap = "plain" -> <<Json(v)>>
    [] wrap = "fenced" -> <<FenceJson, Ws, Json(v), Ws, Fence>>
    [] wrap = "prose" -> <<Prose, Ws, Json(v)>>
    [] wrap = "proseFenced" -> <<Prose, Ws, FenceJson, Ws, Json(v), Ws, Fence>>
    [] wrap = "trailing" -> <<Json(v), Ws, Prose>>
    [] OTHER -> <<Prose>>

\* A field written Undef below is absent from the JSON object (Sanitize drops it).
RawQuantities == {Undef, Null, Num(2), Num(0), Num(-3), NumH(5), Str("2"), Str("abc")}

RawHandReceiptItems ==
  {Null, Str("n/a")}
  \cup { Obj([ stockNumber |-> Str("1005-01-231-0001"), quantityAuth |-> q,
               quantities |-> Obj([A |-> Num(1)]) ]) : q \in RawQuantities }
  \cup { Obj([ itemDescription |-> Str("Rifle"), quantityAuth |-> Num(1),
               quantities |-> Obj([A |-> q]) ]) : q \in RawQuantities }

RawTurnInItems ==
  {Null}
  \cup { Obj([ itemNumber |-> Num(1), quantity |-> q, unitPrice |-> Str("12.5") ])
         : q \in RawQuantities }

RawEquipmentItems ==
  { Null,
    Obj([ lin |-> Str("B05008"), size |-> Num(42), onHandQty |-> Num(1) ]),
    Obj([ lin |-> Str("H1"), nomenclature |-> Str("HELMET ADVANCED COMBAT"),
          nsn |-> Str("8470-01-529-6329"), onHandQty |-> Str("2") ]),
    Obj([ lin |-> Str("H1"), nsn |-> Str("8470015296329"), partialNsn |-> Str("6329") ]),
    Obj([ lin |-> Str("H1"), nsn |-> Str("8470-01-529-6329"), partialNsn |-> Str("63") ]),
    Obj([ lin |-> Str("H1"), nsn |-> Str(""), partialNsn |-> Str("") ]),
    Obj([ lin |-> Str("H1"), nsn |-> Num(8470) ]),
    Obj([ lin |-> Str("H1"), partialNsn |-> Num(6329) ]),
    Obj([ lin |-> Str("B05008"), nomenclature |-> Str("BODY ARMOR FRAG"),
          quantities |-> Obj([authorized |-> Num(1), onHand |-> Num(0), dueOut |-> Num(0)]) ]) }
  \cup { Obj([ lin |-> Str("B05008"), nomenclature |-> Str("BODY ARMOR FRAG"),
               size |-> Str("lrg ocp"),
               quantities |-> Obj([authorized |-> a, onHand |-> o, dueOut |-> Num(0)]) ])
         : a \in {Num(1), Num(-3), Str("abc")}, o \in {Num(3), NumH(5), Undef} }

\* Captures of the detailed item pattern of parseRawTextToOCIE.
RawMatches ==
  { [authorized |-> 1, onHand |-> 3, dueOut |-> 0],
    [authorized |-> 2, onHand |-> 2, dueOut |-> 1] }

\* Results of the generic service, as callGeminiForFormType reads them: the notes
\* carry the keywords, the date is no part of the text scored.
HaystackNotes ==
  { "", "hand receipt", "hand receipt stock number", "request for issue priority",
    "request for issue", "body armor", "turn-in dodaac",
    "hand receipt stock number request for issue priority",
    "from: to: rank/grade ssn/pid cif code nomenclature" }

HaystackResults ==
  { Obj([ itemName |-> Str("M4 Carbine"), borrowerName |-> Str("SGT Smith"),
          date |-> d, notes |-> Str(n) ]) : d \in {Str(""), Str("2024-03-15")},
                                            n \in HaystackNotes }

RawItems(form) ==
  CASE form = "DA2062" -> RawHandReceiptItems
    [] form = "DA3161" -> RawTurnInItems
    [] form = "OCIE" -> RawEquipmentItems
    [] form \in {"Generic", "Response"} -> {}
    [] form = "Haystack" -> HaystackResults
    [] OTHER -> RawMatches

RawScans ==
  [ name : {"none", "named", "bare"}, cif : {"none", "named", "blank"},
    homeCif : BOOLEAN, unit : BOOLEAN, simple : 0..MaxItems ]

\* The JSON values a response text can hold for parseJsonResponse.
ResponseValues ==
  { Obj([itemName |-> Undef]),
    Obj([itemName |-> Str("Radio"), date |-> Str("3/5/24"), notes |-> Null]),
    Obj([ to |-> Str("SGT Smith"),
          items |-> Arr(<<Obj([ stockNumber |-> Str("1005-01-231-0001"),
                                quantities |-> Obj([A |-> Str("2")]) ])>>) ]),
    Null, Num(5), Str("M4"), Bool(TRUE), Arr(<<>>), Arr(<<Num(1), Num(2)>>),
    Arr(<<Obj([lin |-> Str("B05008")])>>),
    Arr(<<Obj([lin |-> Str("B05008")]), Obj([lin |-> Str("H1")])>>) }

\* The top-level fields of the raw object, beside items.
RawHeaders(form) ==
  CASE form = "DA2062" -> { [to |-> Undef], [to |-> Str("SGT Smith")] }
    [] form = "DA3161" ->
         { [transactionType |-> Undef], [transactionType |-> Str("TURN-IN")] }
    [] form = "Generic" ->
         { [itemName |-> Undef, category |-> Undef],
           [itemName |-> Str("Radio"), category |-> Str("Electronics")],
           [itemName |-> Num(7), category |-> Str("")] }
    [] form = "OCIE" ->
         { [unit |-> Undef],
           [soldierName |-> Str("WELLS")],
           [ header |-> Obj([ soldierName |-> Str("WELLS"), rankGrade |-> Str("CPT"),
                              ssnPid |-> Str("1016"), unit |-> Str("HHC"),
                              cifCode |-> Str("W90"), reportDate |-> Str("2024-03-15") ]),
             footer |-> Obj([ totalValue |-> Str("12.5") ]) ],
           [ header |-> Obj([ soldierName |-> Str("WELLS"), unit |-> Str(""),
                              dodId |-> Str("1234567890") ]),
             soldierName |-> Str("SMITH"), unit |-> Str("HHC"), rankGrade |-> Str("CPT"),
             dodId |-> Str("0987654321") ] }
    [] form = "Response" -> ResponseValues
    [] form = "Haystack" -> { [ok |-> TRUE] }
    [] OTHER -> RawScans

\* An empty list is left out of the object: the parsers read an absent items field
\* and an empty one alike (Array.isArray(data.items) ? ... : []).
rawObject(header, items) ==
  Sanitize(Obj(header @@ [items |-> IF items = <<>> THEN Undef ELSE Arr(items)]))

normText == wrapText(nWrap, rawObject(nHeader, nItems))

\* The text handed to parseJsonResponse: JSON.stringify of the value, wrapped.
responseText == wrapText(nWrap, Sanitize(nHeader))

InitNorm ==
  /\ svc = "enhanced"
  /\ isProduction = FALSE
  /\ hasKey = FALSE
  /\ fileOk = FALSE
  /\ CallIdle
  /\ MigOff
  /\ CamOff
  /\ nPc = "input"
  /\ nForm \in NormForms
  /\ nWrap \in CASE nForm \in {"RawText", "Haystack"} -> {"plain"}
                 [] nForm = "Response" -> ResponseWraps
                 [] OTHER -> Wraps
  /\ nHeader \in RawHeaders(nForm)
  /\ nItems = <<>>
  /\ nOut = Undef

AddRawItem(item) ==
  /\ nPc = "input"
  /\ Len(nItems) < MaxItems
  /\ item \in RawItems(nForm)
  /\ nItems' = Append(nItems, item)
  /\ UNCHANGED <<nPc, nForm, nWrap, nHeader, nOut>>
  /\ UNCHANGED <<envVars, callVars, gateVars, screenVars, migVars, camVars>>

\* parseDA2062Data, parseDA3161Data or parseOCIEData on the response text.
Normalize(now) ==
  /\ nPc = "input"
  /\ nForm \in SpecificForms
  /\ nPc' = "parsed"
  /\ nOut' = parseByType(nForm, normText, now).o
  /\ UNCHANGED <<nForm, nWrap, nHeader, nItems>>
  /\ UNCHANGED <<envVars, callVars, gateVars, screenVars, migVars, camVars>>

ParseGeneric ==
  /\ nPc = "input"
  /\ nForm = "Generic"
  /\ nPc' = "genericParsed"
  /\ nOut' = parseGenericData(normText)
  /\ UNCHANGED <<nForm, nWrap, nHeader, nItems>>
  /\ UNCHANGED <<envVars, callVars, gateVars, screenVars, migVars, camVars>>

\* callGeminiForFormType on each result drawn, one call after the other.
ScoreHaystacks ==
  /\ nPc = "input"
  /\ nForm = "Haystack"
  /\ Len(nItems) >= 1
  /\ nPc' = "scored"
  /\ nOut' = [i \in 1..Len(nItems) |-> callGeminiForFormTypeResult(nHeader.ok, nItems[i])]
  /\ UNCHANGED <<nForm, nWrap, nHeader, nItems>>
  /\ UNCHANGED <<envVars, callVars, gateVars, screenVars, migVars, camVars>>

\* parseJsonResponse of gemini.ts and of api/gemini-ocr.js (the same code).
ParseResponse ==
  /\ nPc = "input"
  /\ nForm = "Response"
  /\ nPc' = "responseParsed"
  /\ nOut' = IF parseJsonResponseThrows(responseText)
             THEN [ok |-> FALSE, v |-> Null]
             ELSE [ok |-> TRUE, v |-> parseJsonResponse(responseText)]
  /\ UNCHANGED <<nForm, nWrap, nHeader, nItems>>
  /\ UNCHANGED <<envVars, callVars, gateVars, screenVars, migVars, camVars>>

ParseRawText ==
  /\ nPc = "input"
  /\ nForm = "RawText"
  /\ nPc' = "rawParsed"
  /\ nOut' = parseRawTextToOCIE(nHeader, nItems)
  /\ UNCHANGED <<nForm, nWrap, nHeader, nItems>>
  /\ UNCHANGED <<envVars, callVars, gateVars, screenVars, migVars, camVars>>

NextNorm ==
  \/ \E item \in RawHandReceiptItems \cup RawTurnInItems \cup RawEquipmentItems
                 \cup RawMatches \cup HaystackResults : AddRawItem(item)
  \/ \E now \in Clock : Normalize(now)
  \/ ParseGeneric
  \/ ParseResponse
  \/ ScoreHaystacks
  \/ ParseRawText

SpecNorm == InitNorm /\ [][NextNorm]_vars

(***************************************************************************)
(* Properties.                                                             *)
(***************************************************************************)

\* C1: for every combination of gateway outcomes extractDataFromImage returns a record
\* {formType, data} with one of the four form types and never lets an exception reach
\* its caller.
C1_AlwaysReturnsRecord ==
  /\ pc # "threw"
  /\ pc = "returned" => result.formType \in FormTypes /\ result.data # Undef

\* C1 fails here: the form-aware service's generic extraction failed in the try block
\* and again in the catch block, and the exception reached the caller.
C1_Witness == svc = "formAware" /\ pc = "threw" /\ result = NoResult

\* C2: detectFormType never raises: the classification step always ends by handing one
\* of the four form types to the switch, and that type is Generic whenever the internal
\* call failed (a failed generic service call for the enhanced service, a rejected
\* call for the form-aware one).
C2_ClassifierNeverRaises ==
  [][ pc = "detect" =>
        /\ pc' \in {"detect", "dispatch"}
        /\ pc' = "dispatch" =>
             /\ formType' \in FormTypes
             /\ (svc = "enhanced" /\ ~gout.ok) => formType' = "Generic"
             /\ (svc = "formAware" /\ ~fileOk) => formType' = "Generic" ]_vars

\* C2 is exercised: the enhanced service's classification call failed on an unreadable
\* file and the switch was handed Generic.
C2_Witness ==
  svc = "enhanced" /\ ~fileOk /\ pc = "dispatch" /\ formType = "Generic"

\* What callGeminiDirectly needs from the body of the ok response it stopped at.
C3_ContentUsable(r) ==
  /\ r.readable
  /\ r.text # <<>>
  /\ ~parseJsonResponseThrows(r.text)
  /\ ~IsNullish(parseJsonResponse(r.text))
  /\ LET date == Prop(parseJsonResponse(r.text), "date")
     IN Truthy(date) => date.t = "str"

\* C3 (as amended): the candidate loop of callGeminiDirectly stops at the first ok
\* response, else tries every candidate once; the call succeeds exactly when a candidate
\* responded ok and the body of that response is readable and its text yields a
\* non-null JSON value whose date, if any, is a string.  callGeminiForExtraction never
\* fails: it always returns a non-empty text.
C3_ExtractorOutcome ==
  /\ (gpc = "done" /\ gret.mode = "direct" /\ fileOk) =>
       /\ Len(gret.tried) \in 1..Len(modelNames)
       /\ \A i \in 1..(Len(gret.tried) - 1) : gret.tried[i] # "ok"
       /\ gret.tried[Len(gret.tried)] = "ok" \/ Len(gret.tried) = Len(modelNames)
       /\ gret.ok <=> (gret.tried[Len(gret.tried)] = "ok" /\ C3_ContentUsable(gret.resp))
  /\ (pc = "returned" /\ formType \in SpecificForms) => xtext # <<>>

\* C3 (as stated): the call over the candidate list fails exactly when every candidate
\* fails to respond ok, whatever the content of an ok response.
C3_FailsOnlyWhenAllCandidatesFail ==
  (gpc = "done" /\ gret.mode = "direct" /\ fileOk) =>
    (gret.ok <=> \E i \in 1..Len(gret.tried) : gret.tried[i] = "ok")

\* C3 is exercised: after a failed candidate, a later one responded ok with a body the
\* call could not use, and the call failed.
C3_Witness ==
  /\ gpc = "done"
  /\ gret.mode = "direct"
  /\ Len(gret.tried) >= 2
  /\ gret.tried[Len(gret.tried)] = "ok"
  /\ ~gret.ok

\* C4: at most one gateway request is outstanding at any time, and a request other
\* than the classification's own is outstanding only once the form type is classified.
C4_StrictlySequential ==
  /\ inflight \in {0, 1}
  /\ inflight = 1 =>
       /\ outstanding # NoRequest
       /\ outstanding.site = "formType" <=> formType = "None"
       /\ outstanding.site # "formType" => outstanding.classified

\* C4 is exercised: the extraction fallback has its second candidate request
\* outstanding, after the classification's requests.
C4_Witness ==
  inflight = 1 /\ outstanding.site = "extractFallback" /\ gidx >= 2 /\ formType \in SpecificForms

\* C5 (as amended): the form type is set once per attempt; the result of
\* extractDataFromImage carries the classified type on every path; the capture screen
\* carries it too, unless the user had selected a different type by hand, in which
\* case the screen keeps the user's type.
C5_FormTypeSetOnce ==
  [][ /\ formType # "None" => formType' = formType
      /\ pc' = "returned" => result'.formType = formType'
      /\ (pc \in {"returned", "threw"} /\ pc' = "applied") =>
           extractedData'.formType =
             IF ~userManuallySelected \/ selectedFormType = formType
             THEN formType ELSE selectedFormType ]_vars

\* C5 (as stated): after the capture screen applies the result, the form type it
\* carries is the classified one.
C5_ScreenCarriesClassifiedType ==
  [][ (pc \in {"returned", "threw"} /\ pc' = "applied") =>
        extractedData'.formType = formType ]_vars

\* C5 is exercised: the screen applied a result whose classified type it recorded as
\* detected while keeping a different, user-selected type.
C5_Witness ==
  /\ pc = "applied"
  /\ detectedFormType = formType
  /\ userManuallySelected
  /\ extractedData.formType # formType

\* C6: every EquipmentRecord returned carries a confidence score, also when parsing
\* failed.
C6_EquipmentRecordHasConfidence ==
  (pc = "returned" /\ result.formType = "OCIE") =>
    "ocrConfidence" \in DOMAIN result.data.o

\* C6 fails here: an OCIE form was classified, the extraction call returned a text,
\* and the record returned for it has no confidence score.
C6_Witness ==
  /\ pc = "returned"
  /\ result.formType = "OCIE"
  /\ xtext # <<>>
  /\ "ocrConfidence" \notin DOMAIN result.data.o

\* C7: every record with a confidence score has overall, header and items within
\* 0..100 and overall = round((header + items) / 2).
C7_ConfidenceConsistent ==
  (nPc \in {"parsed", "rawParsed"} /\ "ocrConfidence" \in DOMAIN nOut) =>
    LET c == nOut.ocrConfidence
    IN /\ c.overall \in 0..100
       /\ c.header \in 0..100
       /\ c.items \in 0..100
       /\ c.overall = JsRound(c.header + c.items, 2)

\* C7 fails here: parseRawTextToOCIE found one header field and no item, and scored
\* overall 20 with header 20 and items 0.
C7_Witness ==
  /\ nPc = "rawParsed"
  /\ Len(nOut.items) = 0
  /\ nOut.ocrConfidence.overall = 20
  /\ nOut.ocrConfidence.header = 20
  /\ nOut.ocrConfidence.items = 0

C8_NonNegativeInteger(v) == v.t = "num" /\ v.h >= 0 /\ v.h % 2 = 0

\* C8: after normalization every line-item quantity field is a non-negative integer.
C8_QuantitiesNonNegativeIntegers ==
  nPc = "parsed" =>
    \A i \in 1..Len(nOut.items) :
      LET item == nOut.items[i]
      IN CASE nForm = "DA2062" ->
                /\ C8_NonNegativeInteger(item.quantityAuth)
                /\ \A col \in {"A", "B", "C", "D", "E", "F"} :
                     C8_NonNegativeInteger(item.quantities[col])
           [] nForm = "DA3161" -> C8_NonNegativeInteger(item.quantity)
           [] OTHER ->
                /\ C8_NonNegativeInteger(item.quantities.authorized)
                /\ C8_NonNegativeInteger(item.quantities.onHand)
                /\ C8_NonNegativeInteger(item.quantities.dueOut)

\* C8 fails here: a normalized DA3161 item carries the quantity -3.
C8_Witness ==
  /\ nPc = "parsed"
  /\ nForm = "DA3161"
  /\ Len(nOut.items) >= 1
  /\ nOut.items[1].quantity = Num(-3)

C9_Exceeds(item) == NumGt(item.quantities.onHand, item.quantities.authorized)

\* C9: every normalized EquipmentRecord item whose on-hand quantity exceeds the
\* authorized one carries an issue text holding both numbers, and exceeding does not
\* remove an item: when the parser's try block does not throw, every raw item is in
\* the record at its position with its own quantities.
C9_ExcessRecordedNotRejected ==
  (nPc = "parsed" /\ nForm = "OCIE") =>
    /\ \A i \in 1..Len(nOut.items) :
         C9_Exceeds(nOut.items[i]) =>
           \E k \in 1..Len(nOut.items[i].issues) :
             /\ Includes(nOut.items[i].issues[k],
                         "(" \o NumToString(nOut.items[i].quantities.onHand) \o ")")
             /\ Includes(nOut.items[i].issues[k],
                         "(" \o NumToString(nOut.items[i].quantities.authorized) \o ")")
    /\ ~parseOCIEThrows(normText) =>
         /\ Len(nOut.items) = Len(nItems)
         /\ \A i \in 1..Len(nItems) : nOut.items[i].quantities = itemQuantities(nItems[i])

\* C9 is exercised: a record of two items was normalized, one of them with on-hand 3
\* over authorized 1.
C9_Witness ==
  /\ nPc = "parsed"
  /\ nForm = "OCIE"
  /\ Len(nOut.items) = 2
  /\ \E i \in 1..2 : /\ nOut.items[i].quantities.onHand = Num(3)
                     /\ nOut.items[i].quantities.authorized = Num(1)

\* C10: normalizing a list of n items yields n items, also when one of them is
\* malformed (the text itself being well-formed JSON).
C10_ListSurvivesMalformedItem ==
  (nPc = "parsed" /\ nWrap = "plain") => Len(nOut.items) = Len(nItems)

\* C10 fails here: a DA2062 list of a well-formed item followed by null was parsed
\* into a record with no items.
C10_Witness ==
  /\ nPc = "parsed"
  /\ nForm = "DA2062"
  /\ nWrap = "plain"
  /\ Len(nItems) = 2
  /\ nItems[1].t = "obj"
  /\ nItems[2] = Null
  /\ nOut.items = <<>>

(***************************************************************************)
(* C11.  Normalizing the empty object {} gives, for every form type, a     *)
(* record holding every required field of types/receipt.ts at its default: *)
(* "" for text, 0 for numbers, false for flags, the empty list for items.  *)
(* The code does so except for the two enumerated text fields, which get   *)
(* the first member of their enumeration: transactionType 'ISSUE' and      *)
(* category 'Other'.                                                       *)
(***************************************************************************)
C11_RequiredText(form) ==
  CASE form = "DA2062" ->
         {"handReceiptNumber", "from", "to", "publicationDate", "page", "totalPages"}
    [] form = "DA3161" ->
         {"requestNumber", "voucherNumber", "sendTo", "dateRequired", "dodAAC", "priority",
          "requestFrom", "transactionType"}
    [] form = "OCIE" ->
         {"soldierName", "rankGrade", "dodId", "ssnPid", "unit", "cifCode", "reportDate"}
    [] OTHER -> {"itemName", "borrowerName", "date", "category"}

C11_EmptyObjectParsed ==
  /\ nPc \in {"parsed", "genericParsed"}
  /\ nWrap = "plain"
  /\ DOMAIN rawObject(nHeader, nItems).o = {}

C11_EnumDefault(form, f) ==
  CASE form = "DA3161" /\ f = "transactionType" -> Str("ISSUE")
    [] form = "Generic" /\ f = "category" -> Str("Other")
    [] OTHER -> Str("")

C11_EmptyDefault(form, f) == Str("")

C11_Defaulted(Default(_, _)) ==
  /\ C11_RequiredText(nForm) \subseteq DOMAIN nOut
  /\ \A f \in C11_RequiredText(nForm) : nOut[f] = Default(nForm, f)
  /\ nForm # "Generic" => "items" \in DOMAIN nOut /\ nOut.items = <<>>
  /\ nForm = "OCIE" =>
       /\ {"isSigned", "ocrConfidence"} \subseteq DOMAIN nOut
       /\ nOut.isSigned = Bool(FALSE)
       /\ nOut.ocrConfidence.overall = 0
       /\ nOut.ocrConfidence.header = 0
       /\ nOut.ocrConfidence.items = 0

\* C11 (amended): {} normalizes to the record of defaults, with transactionType
\* 'ISSUE' for RequestTurnIn and category 'Other' for Generic.
C11_EmptyObjectDefaults == C11_EmptyObjectParsed => C11_Defaulted(C11_EnumDefault)

\* C11 as stated: every required text field of the record of {} is the empty string.
C11_EmptyObjectAllEmpty == C11_EmptyObjectParsed => C11_Defaulted(C11_EmptyDefault)

C11_Witness ==
  /\ C11_EmptyObjectParsed
  /\ nForm = "DA3161"
  /\ nOut.requestNumber = Str("")
  /\ nOut.transactionType = Str("ISSUE")

(***************************************************************************)
(* C12.  Round trip of the response parser: for a JSON object O,           *)
(* parseJsonResponse(JSON.stringify(O)) is O, and so is parseJsonResponse  *)
(* of the serialization inside a ```json code fence.                       *)
(***************************************************************************)
C12_RoundTripCase ==
  /\ nPc = "responseParsed"
  /\ nHeader.t = "obj"
  /\ nWrap \in {"plain", "fenced"}

C13_NoObjectLocated ==
  /\ ~JsonParseOk(responseText)
  /\ \/ ~BraceSpanExists(responseText)
     \/ ~BraceSpanParses(responseText)

\* C13: the parser fails when no JSON object can be located, and otherwise returns
\* an object, never another kind of value.
C13_ObjectOrParseError ==
  nPc = "responseParsed" =>
    /\ ~nOut.ok <=> C13_NoObjectLocated
    /\ nOut.ok => nOut.v.t = "obj"

\* C13 fails here: the text "5" parsed as a whole, and the parser returned the
\* number 5.
C13_Witness ==
  /\ nPc = "responseParsed"
  /\ nWrap = "plain"
  /\ responseText = <<Json(Num(5))>>
  /\ nOut.ok
  /\ nOut.v = Num(5)

(***************************************************************************)
(* C14.  On the form-specific paths a response text that wraps the JSON    *)
(* object in prose and/or a ```json code fence is normalized to the record *)
(* of the embedded object.                                                 *)
(***************************************************************************)
C14_EmbeddedText == <<Json(rawObject(nHeader, nItems))>>

\* C14: the record of a wrapped text is the record of the object inside it.
C14_WrappedTextNormalized ==
  (nPc = "parsed" /\ nWrap # "plain") =>
    \E now \in Clock : nOut = parseByType(nForm, C14_EmbeddedText, now).o

\* C14 fails here: "Here you go:" and a fenced HandReceipt object naming SGT Smith,
\* with one item whose quantities.A is "2", came out as the all-default record.
C14_Witness ==
  /\ nPc = "parsed"
  /\ nForm = "DA2062"
  /\ nWrap = "proseFenced"
  /\ nHeader.to = Str("SGT Smith")
  /\ Len(nItems) = 1
  /\ Prop(Prop(nItems[1], "quantities"), "A") = Str("2")
  /\ parseDA2062Data(C14_EmbeddedText).to = Str("SGT Smith")
  /\ parseDA2062Data(C14_EmbeddedText).items[1].quantities.A = Num(2)
  /\ nOut = getDefaultDA2062Data

(***************************************************************************)
(* C15.  Keyword scoring is deterministic: two calls whose results give    *)
(* the same haystack text answer the same form type, whatever else the     *)
(* results hold and whichever call comes first.                            *)
(***************************************************************************)
C15_Haystack(i) == formText(nItems[i])

C18_Count(ft, text) ==
  CASE ft = "DA2062" -> patternScore(da2062Patterns, text)
    [] ft = "DA3161" -> patternScore(da3161Patterns, text)
    [] OTHER -> patternScore(ociePatterns, text)

C18_Threshold(ft) ==
  CASE ft = "DA2062" -> DA2062Threshold
    [] ft = "DA3161" -> DA3161Threshold
    [] OTHER -> OCIEThreshold

C18_Qualifying(text) == {ft \in SpecificForms : C18_Count(ft, text) >= C18_Threshold(ft)}

C18_Highest(text) ==
  {ft \in C18_Qualifying(text) :
     \A other \in C18_Qualifying(text) : C18_Count(ft, text) >= C18_Count(other, text)}

\* C18: the qualifying form type with the strictly highest count is returned; a tie
\* for the highest count yields Generic.
C18_HighestCountWins ==
  nPc = "scored" =>
    \A i \in 1..Len(nItems) :
      LET highest == C18_Highest(C15_Haystack(i))
      IN /\ Cardinality(highest) = 1 => nOut[i] \in highest
         /\ Cardinality(highest) > 1 => nOut[i] = "Generic"

\* C18 fails here: five OCIE keywords against two DA2062 keywords, classified DA2062.
C18_Witness ==
  /\ nPc = "scored"
  /\ C18_Count("OCIE", C15_Haystack(1)) = 5
  /\ C18_Count("DA2062", C15_Haystack(1)) = 2
  /\ nOut[1] = "DA2062"

\* The order of the tests decides: DA2062 when it qualifies, else DA3161 when it
\* qualifies, else OCIE when it qualifies.
C18_FirstQualifyingWins ==
  nPc = "scored" =>
    \A i \in 1..Len(nItems) :
      LET q == C18_Qualifying(C15_Haystack(i))
      IN nOut[i] = (IF "DA2062" \in q THEN "DA2062"
                    ELSE IF "DA3161" \in q THEN "DA3161"
                    ELSE IF "OCIE" \in q THEN "OCIE" ELSE "Generic")

(***************************************************************************)
(* C19.  When no specific form type reaches its minimum keyword count the  *)
(* result is Generic; a text holding none of the keywords is such a text.  *)
(***************************************************************************)
C19_NoKeyword(text) == \A ft \in SpecificForms : C18_Count(ft, text) = 0

\* C19: no qualifying form type yields Generic, in particular no keyword at all.
C19_BelowThresholdGeneric ==
  nPc = "scored" =>
    \A i \in 1..Len(nItems) :
      /\ C18_Qualifying(C15_Haystack(i)) = {} => nOut[i] = "Generic"
      /\ C19_NoKeyword(C15_Haystack(i)) => nOut[i] = "Generic"

\* One DA2062 keyword, below the minimum of two, and a text without any keyword were
\* both classified Generic.
C19_Witness ==
  /\ nPc = "scored"
  /\ Len(nItems) = 2
  /\ C18_Count("DA2062", C15_Haystack(1)) = 1
  /\ C18_Qualifying(C15_Haystack(1)) = {}
  /\ C19_NoKeyword(C15_Haystack(2))
  /\ nOut = <<"Generic", "Generic">>

(***************************************************************************)
(* C16.  Parse, normalize, validate and score are a function of the        *)
(* response text and the form type: a second invocation on the same text   *)
(* gives the same record.  The code reads the clock for the identifiers of *)
(* EquipmentRecord items (ocie-item-<index>-<Date.now()>), and nothing     *)
(* else besides its argument.                                              *)
(***************************************************************************)
C16_Again(now) == parseByType(nForm, normText, now).o

C16_WithoutIds(record) ==
  IF "items" \in DOMAIN record
  THEN [record EXCEPT !.items =
          [i \in 1..Len(@) |-> IF "id" \in DOMAIN @[i] THEN [@[i] EXCEPT !.id = ""] ELSE @[i]]]
  ELSE record

C17_AllFailed(statuses) == \A i \in 1..Len(statuses) : statuses[i] \in {"err", "throw"}

C17_FailedBeforeLast(statuses) ==
  Len(statuses) >= 1 => C17_AllFailed(SubSeq(statuses, 1, Len(statuses) - 1))

\* C17: candidates are tried in list order, each at most once, the next one only
\* after the one before failed, and none after a successful response.
C17_FallbackInListOrder ==
  /\ Len(tried) <= Len(modelNames)
  /\ gpc = "loop" => (gidx = Len(tried) + 1 /\ C17_AllFailed(tried))
  /\ gpc = "waitModel" =>
       /\ gidx = Len(tried) + 1
       /\ outstanding.to = modelNames[gidx]
       /\ \A i \in 1..Len(tried) : modelNames[i] # outstanding.to
       /\ C17_AllFailed(tried)
  /\ C17_FailedBeforeLast(tried)
  /\ C17_FailedBeforeLast(gret.tried)
  /\ (gret.mode = "direct" /\ gret.tried # <<>> /\ Len(gret.tried) < Len(modelNames)) =>
       gret.tried[Len(gret.tried)] = "ok"

\* Two candidates failed, one by an error status and one by a thrown request, and
\* the third answered ok: the call ended there.
C17_Witness ==
  /\ gpc = "done"
  /\ gret.mode = "direct"
  /\ gret.tried = <<"err", "throw", "ok">>
  /\ outstanding = NoRequest

(***************************************************************************)
(* C20.  Stock-number validation of EquipmentRecord items.  The code tests *)
(* a stock number only when it is present (nsn && ..., partialNsn && ...), *)
(* the full one like the partial one; an empty or absent full stock number *)
(* produces no issue.                                                      *)
(***************************************************************************)
C20_Digits(s, from, to) == AllDigits(SubSeq(s, from, to))

\* Four digit groups of 4, 2, 3 and 4 digits joined by "-".
C20_MatchesGroups(s) ==
  /\ Len(s) = 16
  /\ C20_Digits(s, 1, 4) /\ CharAt(s, 5) = "-"
  /\ C20_Digits(s, 6, 7) /\ CharAt(s, 8) = "-"
  /\ C20_Digits(s, 9, 11) /\ CharAt(s, 12) = "-"
  /\ C20_Digits(s, 13, 16)

C20_FourDigits(s) == Len(s) = 4 /\ AllDigits(s)

C20_HasIssue(item, prefix) ==
  \E k \in 1..Len(item.issues) :
    /\ Len(item.issues[k]) >= Len(prefix)
    /\ SubSeq(item.issues[k], 1, Len(prefix)) = prefix

C20_FullIssue(item) == C20_HasIssue(item, "Invalid NSN format: ")
C20_PartialIssue(item) == C20_HasIssue(item, "Invalid Partial NSN format: ")

\* The record holds the normalized item of every raw item.
C20_ItemsNormalized ==
  nPc = "parsed" /\ nForm = "OCIE" /\ Len(nItems) >= 1 /\ Len(nOut.items) = Len(nItems)

\* The partial stock number of raw item i, when present, gives an issue unless it is
\* exactly 4 digits.
C20_PartialChecked(i) ==
  LET partialNsn == Prop(nItems[i], "partialNsn")
  IN C20_PartialIssue(nOut.items[i])
       <=> (Truthy(partialNsn) /\ ~C20_FourDigits(ToStr(partialNsn)))

\* C20 (amended): a full stock number that is present (not empty) gives an issue
\* exactly when it does not match the 4-2-3-4 pattern, an absent or empty one gives
\* none; a partial one, when present, gives an issue unless it is exactly 4 digits;
\* a full stock number that is present but no text fails the normalization of the
\* whole record.
C20_PresentStockNumbersChecked ==
  /\ C20_ItemsNormalized =>
       \A i \in 1..Len(nItems) :
         LET nsn == Prop(nItems[i], "nsn")
         IN /\ ~Truthy(nsn) \/ nsn.t = "str"
            /\ C20_FullIssue(nOut.items[i])
                 <=> (Truthy(nsn) /\ ~C20_MatchesGroups(nsn.s))
            /\ C20_PartialChecked(i)
  /\ (nPc = "parsed" /\ nForm = "OCIE"
      /\ \E i \in 1..Len(nItems) :
           Truthy(Prop(nItems[i], "nsn")) /\ Prop(nItems[i], "nsn").t # "str")
     => nOut = getDefaultOCIEData

\* C20 as stated: a full stock-number field that does not match always gives an
\* issue, a matching one none; a partial one, when present, unless it is 4 digits.
C20_FullStockNumberAlwaysChecked ==
  C20_ItemsNormalized =>
    \A i \in 1..Len(nItems) :
      LET nsn == Prop(nItems[i], "nsn")
      IN /\ nsn.t = "str" =>
              (C20_FullIssue(nOut.items[i]) <=> ~C20_MatchesGroups(nsn.s))
         /\ C20_PartialChecked(i)

\* One item with an unmatched full and a 4-digit partial stock number carries the
\* full-number issue only; the next, with both empty, carries neither.
C20_Witness ==
  /\ C20_ItemsNormalized
  /\ Len(nItems) = 2
  /\ Prop(nItems[1], "nsn") = Str("8470015296329")
  /\ Prop(nItems[1], "partialNsn") = Str("6329")
  /\ nOut.items[1].issues = <<"Invalid NSN format: 8470015296329">>
  /\ Prop(nItems[2], "nsn") = Str("")
  /\ nOut.items[2].issues = <<>>

(***************************************************************************)
(* C21.  EquipmentRecord header fields are read from the nested header     *)
(* object first: a non-empty header.<field> is the normalized value, the   *)
(* flat <field> is taken when the nested one is missing or empty (dodId    *)
(* has no flat source), and the field's confidence follows the same choice.*)
(***************************************************************************)
C21_Raw == rawObject(nHeader, nItems)
C21_Nested(f) == OptProp(Prop(C21_Raw, "header"), f)
C21_Flat(f) == Prop(C21_Raw, f)

C21_Normalized == nPc = "parsed" /\ nForm = "OCIE" /\ "ocrConfidence" \in DOMAIN nOut

\* C21: the nested header value wins whenever it is non-empty; the flat value is used
\* only when the nested one is missing or empty.
C21_NestedHeaderPreferred ==
  C21_Normalized =>
    /\ \A f \in {headerFields[i] : i \in 1..Len(headerFields)} \cup {"dodId"} :
         /\ Truthy(C21_Nested(f)) => nOut[f] = C21_Nested(f)
         /\ nOut[f] # C21_Nested(f) => ~Truthy(C21_Nested(f))
    /\ \A f \in {headerFields[i] : i \in 1..Len(headerFields)} :
         /\ (~Truthy(C21_Nested(f)) /\ Truthy(C21_Flat(f))) => nOut[f] = C21_Flat(f)
         /\ nOut.ocrConfidence.fields[f] = (IF nOut[f] # Str("") THEN FullScore ELSE 0)

\* Nested WELLS beat flat SMITH, the empty nested unit gave way to the flat HHC, and
\* the rank came from the flat field.
C21_Witness ==
  /\ C21_Normalized
  /\ C21_Nested("soldierName") = Str("WELLS") /\ C21_Flat("soldierName") = Str("SMITH")
  /\ nOut.soldierName = Str("WELLS")
  /\ C21_Nested("unit") = Str("") /\ nOut.unit = Str("HHC")
  /\ C21_Nested("rankGrade") = Undef /\ nOut.rankGrade = Str("CPT")
  /\ nOut.dodId = Str("1234567890")

(***************************************************************************)
(* C22.  The confidence of an item is an integer in 0..100, and a          *)
(* non-empty bonus field (size, nsn, issuingCif) never lowers it: the item *)
(* scores at least what it would score without that field.                 *)
(***************************************************************************)
C22_ItemsScored ==
  nPc = "parsed" /\ nForm = "OCIE" /\ Len(nItems) >= 1 /\ Len(nOut.items) = Len(nItems)

C22_Without(item, f) == Obj([g \in DOMAIN item.o \ {f} |-> item.o[g]])

\* C22: each item score is within 0..100 and is not below the score of the same item
\* with one of its non-empty bonus fields taken away.
C22_BonusNeverLowers ==
  C22_ItemsScored =>
    \A i \in 1..Len(nItems) :
      /\ nOut.items[i].confidence \in 0..100
      /\ \A f \in bonusFields :
           Truthy(Prop(nItems[i], f)) =>
             nOut.items[i].confidence >= calculateItemConfidence(C22_Without(nItems[i], f))

\* C22 fails here: an item with all three critical fields scores 100 without its
\* size and 93 with it.
C22_Witness ==
  /\ C22_ItemsScored
  /\ Prop(nItems[1], "size") = Str("lrg ocp")
  /\ nOut.items[1].confidence = 93
  /\ calculateItemConfidence(C22_Without(nItems[1], "size")) = 100

(***************************************************************************)
(* C23.  The quantity part of an item's confidence is the full score       *)
(* whenever the on-hand quantity is present and a number >= 0, zero        *)
(* included, and 0 otherwise.                                              *)
(***************************************************************************)
\* The on-hand quantity of the raw item: quantities.onHand, else the flat onHandQty.
C23_OnHand(item) ==
  IF IsNullish(OptProp(Prop(item, "quantities"), "onHand"))
  THEN Prop(item, "onHandQty")
  ELSE OptProp(Prop(item, "quantities"), "onHand")

C23_QuantityScore(item) ==
  IF ~IsNullish(C23_OnHand(item)) /\ NumGe(ToNumber(C23_OnHand(item)), Num(0))
  THEN FullScore ELSE 0

C23_Expected(item) ==
  Min(100, JsRound(linFieldScore(item) * LinWeight2
                   + nomenclatureFieldScore(item) * NomenclatureWeight2
                   + C23_QuantityScore(item) * QuantitiesWeight2
                   + 2 * BonusScore * bonusCount(item),
                   LinWeight2 + NomenclatureWeight2 + QuantitiesWeight2
                   + BonusWeight2 * bonusCount(item)))

\* C23: every item's confidence is the one computed with the full quantity score for
\* a present on-hand quantity >= 0 and with 0 otherwise.
C23_PresentOnHandScoresFull ==
  C22_ItemsScored =>
    \A i \in 1..Len(nItems) : nOut.items[i].confidence = C23_Expected(nItems[i])

\* C23 fails here: an item with lin, nomenclature and the on-hand quantity 0 scores
\* 64, the score of an item without a quantity, instead of 100.
C23_Witness ==
  /\ C22_ItemsScored
  /\ OptProp(Prop(nItems[1], "quantities"), "onHand") = Num(0)
  /\ nOut.items[1].quantities.onHand = Num(0)
  /\ C23_Expected(nItems[1]) = 100
  /\ nOut.items[1].confidence = 64

(***************************************************************************)
(* C24.  Every gateway request being answered, extractDataFromImage ends,  *)
(* after a bounded number of requests.  One invocation calls the generic   *)
(* service up to twice (classification, then the fallback of the           *)
(* extraction, or the form-aware service's second attempt), so a candidate *)
(* model can be asked twice, and gemini-2.0-flash a third time by          *)
(* callGeminiForExtraction.                                                *)
(***************************************************************************)
C24_Times(target) == Cardinality({i \in 1..Len(requested) : requested[i] = target})

C24_MaxRequests == 2 * Len(modelNames) + 1

C24_Bounded ==
  /\ Len(requested) <= C24_MaxRequests
  /\ \A i \in 1..Len(modelNames) :
       C24_Times(modelNames[i]) <= (IF modelNames[i] = extractionModel THEN 3 ELSE 2)
  /\ C24_Times(serverEndpoint) <= 2

\* C24 (amended): the call ends (the enhanced service returns; the form-aware one
\* returns or throws), having issued at most 11 requests: no candidate is asked more
\* than twice by the generic service calls, plus one request of the extraction.
C24_EndsWithBoundedRequests ==
  /\ []C24_Bounded
  /\ (pc = "detect") ~> (pc \in {"returned", "threw"})
  /\ (pc = "detect" /\ svc = "enhanced") ~> (pc = "returned")

\* C24 as stated: within one invocation each candidate model and the server function
\* is asked at most once.
C24_EachCandidateOnce ==
  /\ \A i \in 1..Len(modelNames) : C24_Times(modelNames[i]) <= 1
  /\ C24_Times(serverEndpoint) <= 1

\* The longest call: five candidates failed in classification, the extraction's own
\* request failed, and the five candidates were asked again by its fallback.
C24_Witness ==
  /\ pc = "returned"
  /\ Len(requested) = C24_MaxRequests
  /\ C24_Times(extractionModel) = 3
  /\ requested[1] = modelNames[1]
  /\ requested[Len(modelNames) + 2] = modelNames[1]

(***************************************************************************)
(* Storage migration: StorageMigrationService over localStorage.  A stored *)
(* text is a token sequence as above: <<>> is the empty string, a Prose    *)
(* token is text JSON.parse rejects.  Of the Storage methods only setItem  *)
(* fails (the quota is exceeded); getItem and removeItem do not throw.     *)
(***************************************************************************)
CURRENT_VERSION == "2.0.0"

\* Runs of performMigration the model follows.
MaxRuns == 3

needsMigration == lsVersion # Item(CURRENT_VERSION)

\* 'f' in v: a TypeError unless v is an object (an array is one).
InThrows(v) == v.t \notin {"obj", "arr"}
In(f, v) == v.t = "obj" /\ f \in DOMAIN v.o

getLegacyReceipts(item) ==
  IF ~item.has \/ item.text = <<>> THEN <<>>
  ELSE IF ~JsonParseOk(item.text) THEN <<>>
  ELSE LET receipts == JsonParse(item.text)
       IN IF receipts.t = "arr" /\ Len(receipts.a) > 0
          THEN LET firstReceipt == receipts.a[1]
               IN IF InThrows(firstReceipt) THEN <<>>
                  ELSE IF /\ In("itemName", firstReceipt)
                          /\ In("borrowerName", firstReceipt)
                          /\ ~In("formType", firstReceipt)
                       THEN receipts.a
                       ELSE <<>>
          ELSE <<>>

genericDataFields ==
  {"itemName", "borrowerName", "date", "serialNumber", "category", "condition", "notes"}

\* A variant that leaves the serial number out of the data.
migrateLegacyReceiptNoSerial(legacyReceipt) ==
  Obj([id |-> Prop(legacyReceipt, "id"),
       formType |-> Str("Generic"),
       photoUrl |-> Prop(legacyReceipt, "photoUrl"),
       timestamp |-> Prop(legacyReceipt, "timestamp"),
       notes |-> Prop(legacyReceipt, "notes"),
       data |-> Obj([f \in genericDataFields \ {"serialNumber"} |-> Prop(legacyReceipt, f)])])

\* legacyReceipt.itemName on null is a TypeError.
migrateLegacyReceiptThrows(legacyReceipt) == IsNullish(legacyReceipt)

migrateLegacyReceipt(legacyReceipt) ==
  Obj([id |-> Prop(legacyReceipt, "id"),
       formType |-> Str("Generic"),
       photoUrl |-> Prop(legacyReceipt, "photoUrl"),
       timestamp |-> Prop(legacyReceipt, "timestamp"),
       notes |-> Prop(legacyReceipt, "notes"),
       data |-> Obj([f \in genericDataFields |-> Prop(legacyReceipt, f)])])

\* The loop over legacyReceipts.  A receipt whose migration throws is caught, and the
\* catch block reads legacyReceipt.id for its message: on the null that made the
\* migration throw this throws again, out of the loop.
failingReceipts(receipts) ==
  {i \in 1..Len(receipts) : migrateLegacyReceiptThrows(receipts[i])}

firstFailing(receipts) ==
  CHOOSE i \in failingReceipts(receipts) : \A j \in failingReceipts(receipts) : i <= j

migratedBeforeFailure(receipts) ==
  IF failingReceipts(receipts) = {} THEN Len(receipts) ELSE firstFailing(receipts) - 1

getNewFormatReceipts(item) ==
  IF ~item.has \/ item.text = <<>> THEN Arr(<<>>)
  ELSE IF ~JsonParseOk(item.text) THEN Arr(<<>>)
  ELSE JsonParse(item.text)

\* existingNewReceipts.length on null is a TypeError.
existingLengthThrows(existing) == IsNullish(existing)

\* if (existingNewReceipts.length > 0) migratedReceipts.push(...existingNewReceipts)
\* (the stored values of the model hold no string).
combineWithExisting(migrated, existing) ==
  IF existing.t = "arr" /\ Len(existing.a) > 0 THEN migrated \o existing.a ELSE migrated

\* new Date().toISOString()
IsoDate(now) == Str("T" \o NumToString(Num(now)))

backupData(legacyReceipts, now) ==
  Obj([receipts |-> Arr(legacyReceipts), migrationDate |-> IsoDate(now),
       version |-> Str("1.0.0")])

setBackup(backups, now, text) ==
  {b \in backups : b.ts # now} \cup {[ts |-> now, text |-> text]}

\* backupKeys.sort(); slice(0, -1) is removed: the entry of the largest key stays.
cleanupOldBackups(backups) ==
  IF Cardinality(backups) > 1
  THEN {b \in backups : \A c \in backups : c.ts <= b.ts}
  ELSE backups

\* A variant that leaves the legacy entry in place.
clearLegacyStorageKeeps(item) == item

\* localStorage.removeItem(LEGACY_STORAGE_KEY)
clearLegacyStorage(item) == NoItem

\* A variant that goes on after a failed save.
afterSaveAlwaysOn(saved) == "backup"

\* saveNewFormatReceipts throws when setItem fails: into the catch of performMigration.
afterSave(saved) == IF saved THEN "backup" ELSE "done"

migrationFailed(count) ==
  [success |-> FALSE, migratedCount |-> count, errors |-> mResult.errors + 1]

LegacyReceipt1 ==
  Obj([id |-> Str("r1"), itemName |-> Str("M4 CARBINE"), borrowerName |-> Str("DOE"),
       date |-> Str("2024-01-05"), photoUrl |-> Str("data:r1"), timestamp |-> Num(1),
       serialNumber |-> Str("W123"), category |-> Str("Weapons"),
       condition |-> Str("Serviceable"), notes |-> Str("sling")])

LegacyReceipt2 ==
  Obj([id |-> Str("r2"), itemName |-> Str("PVS-14"), borrowerName |-> Str("ROE"),
       date |-> Str("2024-02-01"), photoUrl |-> Str("data:r2"), timestamp |-> Num(2),
       category |-> Str("Optics")])

NewReceipt1 ==
  Obj([id |-> Str("n1"), formType |-> Str("DA2062"), photoUrl |-> Str("data:n1"),
       timestamp |-> Num(3),
       data |-> Obj([formNumber |-> Str("DA 2062"), items |-> Arr(<<>>)])])

LegacyStores ==
  {NoItem, Item(<<>>), Item(<<Prose>>),
   Item(Stringify(Arr(<<>>))),
   Item(Stringify(Arr(<<LegacyReceipt1>>))),
   Item(Stringify(Arr(<<LegacyReceipt1, LegacyReceipt2>>))),
   Item(Stringify(Arr(<<NewReceipt1>>))),
   Item(Stringify(Arr(<<LegacyReceipt2, Null>>))),
   Item(Stringify(Arr(<<Null>>)))}

NewStores ==
  {NoItem, Item(<<Prose>>),
   Item(Stringify(Arr(<<>>))),
   Item(Stringify(Arr(<<NewReceipt1>>))),
   Item(Stringify(Null))}

VersionStores == {NoItem, Item("1.0.0"), Item(CURRENT_VERSION)}

BackupStores ==
  {{}, {[ts |-> 0, text |-> Stringify(backupData(<<LegacyReceipt2>>, 0))]}}

InitMigration ==
  /\ svc = "enhanced"
  /\ isProduction = FALSE
  /\ hasKey = FALSE
  /\ fileOk = FALSE
  /\ CallIdle
  /\ NormOff
  /\ CamOff
  /\ lsLegacy \in LegacyStores
  /\ lsNew \in NewStores
  /\ lsVersion \in VersionStores
  /\ lsBackups \in BackupStores
  /\ mpc = "idle"
  /\ mLegacy = <<>>
  /\ mMigrated = <<>>
  /\ mResult = NoMigrationResult
  /\ mStart = [NoMigrationStart EXCEPT !.legacy = lsLegacy, !.new = lsNew,
                                       !.version = lsVersion, !.backups = lsBackups]

\* performMigration is entered: const result.
PerformMigration ==
  /\ mpc \in {"idle", "done"}
  /\ mStart.run < MaxRuns
  /\ mpc' = "read"
  /\ mResult' = NoMigrationResult
  /\ mLegacy' = <<>>
  /\ mMigrated' = <<>>
  /\ mStart' = [legacy |-> lsLegacy, new |-> lsNew, version |-> lsVersion,
                backups |-> lsBackups,
                afterSuccess |-> (mpc = "done" /\ mResult.success),
                run |-> mStart.run + 1]
  /\ UNCHANGED <<lsLegacy, lsNew, lsVersion, lsBackups>>
  /\ UNCHANGED <<envVars, callVars, gateVars, screenVars, normVars, camVars>>

\* Step 1: const legacyReceipts = this.getLegacyReceipts().
GetLegacyReceipts ==
  /\ mpc = "read"
  /\ mLegacy' = getLegacyReceipts(lsLegacy)
  /\ mpc' = IF Len(getLegacyReceipts(lsLegacy)) = 0 THEN "versionOnly" ELSE "migrate"
  /\ UNCHANGED <<lsLegacy, lsNew, lsVersion, lsBackups, mMigrated, mResult, mStart>>
  /\ UNCHANGED <<envVars, callVars, gateVars, screenVars, normVars, camVars>>

\* Steps 2 and 3: the loop over legacyReceipts, then the receipts already stored in
\* the new format are appended.
MigrateReceipts ==
  /\ mpc = "migrate"
  /\ LET count == migratedBeforeFailure(mLegacy)
         existing == getNewFormatReceipts(lsNew)
     IN IF count < Len(mLegacy)
        THEN /\ mMigrated' = [i \in 1..count |-> migrateLegacyReceipt(mLegacy[i])]
             /\ mResult' = migrationFailed(count)
             /\ mpc' = "done"
        ELSE IF existingLengthThrows(existing)
        THEN /\ mMigrated' = [i \in 1..count |-> migrateLegacyReceipt(mLegacy[i])]
             /\ mResult' = migrationFailed(count)
             /\ mpc' = "done"
        ELSE /\ mMigrated' = combineWithExisting(
                               [i \in 1..count |-> migrateLegacyReceipt(mLegacy[i])],
                               existing)
             /\ mResult' = [mResult EXCEPT !.migratedCount = count]
             /\ mpc' = "save"
  /\ UNCHANGED <<lsLegacy, lsNew, lsVersion, lsBackups, mLegacy, mStart>>
  /\ UNCHANGED <<envVars, callVars, gateVars, screenVars, normVars, camVars>>

\* Step 4: this.saveNewFormatReceipts(migratedReceipts).
SaveNewFormatReceipts(saved) ==
  /\ mpc = "save"
  /\ lsNew' = IF saved THEN Item(Stringify(Arr(mMigrated))) ELSE lsNew
  /\ mResult' = IF saved THEN mResult ELSE migrationFailed(mResult.migratedCount)
  /\ mpc' = afterSave(saved)
  /\ UNCHANGED <<lsLegacy, lsVersion, lsBackups, mLegacy, mMigrated, mStart>>
  /\ UNCHANGED <<envVars, callVars, gateVars, screenVars, normVars, camVars>>

\* Step 5: this.createLegacyBackup(legacyReceipts), which swallows a failed setItem.
\* Date.now() is not before the time of a backup in storage.
CreateLegacyBackup(saved, now) ==
  /\ mpc = "backup"
  /\ \A b \in lsBackups : b.ts <= now
  /\ lsBackups' = IF saved
                  THEN cleanupOldBackups(
                         setBackup(lsBackups, now, Stringify(backupData(mLegacy, now))))
                  ELSE lsBackups
  /\ mpc' = "clear"
  /\ UNCHANGED <<lsLegacy, lsNew, lsVersion, mLegacy, mMigrated, mResult, mStart>>
  /\ UNCHANGED <<envVars, callVars, gateVars, screenVars, normVars, camVars>>

\* Step 6: this.clearLegacyStorage().
ClearLegacyStorage ==
  /\ mpc = "clear"
  /\ lsLegacy' = clearLegacyStorage(lsLegacy)
  /\ mpc' = "version"
  /\ UNCHANGED <<lsNew, lsVersion, lsBackups, mLegacy, mMigrated, mResult, mStart>>
  /\ UNCHANGED <<envVars, callVars, gateVars, screenVars, normVars, camVars>>

\* Step 7, and the early return of step 1: this.updateMigrationVersion(), which
\* throws when setItem fails; then result.success = true.
UpdateMigrationVersion(saved) ==
  /\ mpc \in {"versionOnly", "version"}
  /\ lsVersion' = IF saved THEN Item(CURRENT_VERSION) ELSE lsVersion
  /\ mResult' = IF saved THEN [mResult EXCEPT !.success = TRUE]
                ELSE migrationFailed(mResult.migratedCount)
  /\ mpc' = "done"
  /\ UNCHANGED <<lsLegacy, lsNew, lsBackups, mLegacy, mMigrated, mStart>>
  /\ UNCHANGED <<envVars, callVars, gateVars, screenVars, normVars, camVars>>

NextMigration ==
  \/ PerformMigration
  \/ GetLegacyReceipts
  \/ MigrateReceipts
  \/ \E saved \in BOOLEAN : SaveNewFormatReceipts(saved)
  \/ \E saved \in BOOLEAN, now \in Clock : CreateLegacyBackup(saved, now)
  \/ ClearLegacyStorage
  \/ \E saved \in BOOLEAN : UpdateMigrationVersion(saved)

SpecMigration == InitMigration /\ [][NextMigration]_vars

(***************************************************************************)
(* C25.  The migration is one-time and idempotent.                         *)
(***************************************************************************)
\* C25: after a successful performMigration needsMigration is false; a run that
\* follows a successful one leaves the new-format receipts, the legacy key and the
\* version marker as they were and migrates 0 receipts.
C25_OneTimeIdempotent ==
  /\ (mpc = "done" /\ mResult.success) => ~needsMigration
  /\ (mpc = "done" /\ mStart.afterSuccess) =>
       /\ lsNew = mStart.new
       /\ lsLegacy = mStart.legacy
       /\ lsVersion = mStart.version
       /\ mResult.migratedCount = 0
  /\ (mStart.afterSuccess /\ mpc # "done") =>
       /\ lsNew = mStart.new
       /\ lsLegacy = mStart.legacy
       /\ lsVersion = mStart.version

\* A second run has ended after a first one that migrated two receipts next to a
\* stored new-format one and removed the legacy key.
C25_Witness ==
  /\ mpc = "done"
  /\ mStart.afterSuccess
  /\ mStart.run = 2
  /\ ~lsLegacy.has
  /\ lsNew.has
  /\ getNewFormatReceipts(lsNew).t = "arr"
  /\ Len(getNewFormatReceipts(lsNew).a) = 3
  /\ mResult.migratedCount = 0

(***************************************************************************)
(* C26.  The legacy key is removed only after the save; the backup is      *)
(* attempted before, but createLegacyBackup swallows a failed write, so    *)
(* the key is removed without a backup when that write fails.              *)
(***************************************************************************)
C26_Removes == lsLegacy.has /\ ~lsLegacy'.has

C26_Stored(item) ==
  IF item.has /\ JsonParseOk(item.text) /\ JsonParse(item.text).t = "arr"
  THEN JsonParse(item.text).a
  ELSE <<>>

C26_MigratedSaved ==
  /\ Len(mLegacy) > 0
  /\ \A i \in 1..Len(mLegacy) :
       \E j \in 1..Len(C26_Stored(lsNew)) :
         C26_Stored(lsNew)[j] = Sanitize(migrateLegacyReceipt(mLegacy[i]))

C26_BackupExists ==
  \E b \in lsBackups :
    /\ JsonParseOk(b.text)
    /\ Prop(JsonParse(b.text), "receipts") = Sanitize(Arr(mLegacy))

C26_SaveFails == mpc = "save" /\ mpc' = "done"

\* C26 (amended): when performMigration removes the legacy key, the migrated receipts
\* are already saved under the new key, and a backup entry holding the legacy
\* receipts exists unless writing it failed (the backup entries are then those of
\* the start of the run); when the save fails, the legacy key is as it was and
\* success is false.
C26_SaveThenBackupAttemptThenClear ==
  [][/\ C26_Removes => /\ C26_MigratedSaved
                       /\ (C26_BackupExists \/ lsBackups = mStart.backups)
     /\ C26_SaveFails => (lsLegacy' = mStart.legacy /\ ~mResult'.success)]_vars

\* C26 as stated: a backup entry holding the legacy receipts exists whenever the
\* legacy key is removed.
C26_BackupBeforeClear ==
  [][/\ C26_Removes => (C26_MigratedSaved /\ C26_BackupExists)
     /\ C26_SaveFails => (lsLegacy' = mStart.legacy /\ ~mResult'.success)]_vars

\* The legacy key was removed after the save, and storage holds no backup entry.
C26_Witness ==
  /\ mpc = "version"
  /\ mStart.legacy.has
  /\ ~lsLegacy.has
  /\ C26_MigratedSaved
  /\ lsBackups = {}

(***************************************************************************)
(* C27.  A successful migration loses no receipt.                          *)
(***************************************************************************)
C27_IsLegacyReceipt(r) ==
  r.t = "obj" /\ {"itemName", "borrowerName"} \subseteq DOMAIN r.o /\ "formType" \notin DOMAIN r.o

C27_MigratedFrom(n, r) ==
  /\ n.t = "obj"
  /\ Prop(n, "id") = Prop(r, "id")
  /\ Prop(n, "photoUrl") = Prop(r, "photoUrl")
  /\ Prop(n, "timestamp") = Prop(r, "timestamp")
  /\ Prop(n, "formType") = Str("Generic")
  /\ \A f \in genericDataFields : Prop(Prop(n, "data"), f) = Prop(r, f)

FacingModes == {"user", "environment"}

\* getUserMedia calls of one component the model follows, and restart timers pending
\* at a time.
MaxMedia == 3
MaxTimers == 2

otherFacingMode(mode) == IF mode = "user" THEN "environment" ELSE "user"

liveStreams == {i \in 1..Len(media) : media[i].st = "live"}
pendingMedia == {i \in 1..Len(media) : media[i].st = "pending"}

\* setIsStreaming(v): a state update of an unmounted component is dropped.
setIsStreaming(v) == IF mounted THEN v ELSE isStreaming

\* stopCamera: the tracks of the stream streamRef holds are stopped.
stoppedMedia == IF streamRef = 0 THEN media ELSE [media EXCEPT ![streamRef].st = "stopped"]
stoppedStreaming == IF streamRef = 0 THEN isStreaming ELSE setIsStreaming(FALSE)
stoppedEvents == IF streamRef = 0 THEN mediaEvents ELSE 0

\* if (isStreaming) of that effect: the state of the render that follows the handler.
restartWanted(streamingBefore, streamingNow) == streamingNow

\* startCamera of the render with facing mode `mode`, up to its await.
StartCamera(mode) ==
  IF streamRef # 0
  THEN /\ media' = stoppedMedia
       /\ streamRef' = 0
       /\ isStreaming' = stoppedStreaming
       /\ mediaEvents' = stoppedEvents
  ELSE /\ media' = Append(media, [mode |-> mode, st |-> "pending"])
       /\ UNCHANGED <<streamRef, isStreaming, mediaEvents>>

InitCamera ==
  /\ svc = "enhanced"
  /\ isProduction = FALSE
  /\ hasKey = FALSE
  /\ fileOk = FALSE
  /\ CallIdle
  /\ NormOff
  /\ MigOff
  /\ mounted = TRUE
  /\ isStreaming = FALSE
  /\ facingMode = "environment"
  /\ streamRef = 0
  /\ media = <<>>
  /\ mountTimer = TRUE
  /\ restartTimers = <<>>
  /\ showTimers = 0
  /\ mediaEvents = 0
  /\ switched = FALSE

\* The timer of the mount effect fires: startCamera of the first render.
MountTimer ==
  /\ mountTimer
  /\ mountTimer' = FALSE
  /\ IF mounted /\ streamRef = 0
     THEN StartCamera("environment")
     ELSE UNCHANGED <<media, streamRef, isStreaming, mediaEvents>>
  /\ UNCHANGED <<mounted, facingMode, restartTimers, showTimers, switched>>
  /\ UNCHANGED <<envVars, callVars, gateVars, screenVars, normVars, migVars>>

\* A timer set by the effect on the facing mode fires: startCamera of that render.
RestartTimer ==
  /\ restartTimers # <<>>
  /\ streamRef # 0 \/ Len(media) < MaxMedia
  /\ restartTimers' = Tail(restartTimers)
  /\ StartCamera(Head(restartTimers))
  /\ UNCHANGED <<mounted, facingMode, mountTimer, showTimers, switched>>
  /\ UNCHANGED <<envVars, callVars, gateVars, screenVars, normVars, migVars>>

\* getUserMedia resolves: with the video element, the stream is attached and kept in
\* streamRef, whatever streamRef held; without it (the component is unmounted) the
\* stream is neither kept nor stopped.
MediaResolves(i) ==
  /\ i \in pendingMedia
  /\ media' = [media EXCEPT ![i].st = "live"]
  /\ IF mounted
     THEN /\ streamRef' = i
          /\ showTimers' = showTimers + 1
          /\ mediaEvents' = 2
     ELSE UNCHANGED <<streamRef, showTimers, mediaEvents>>
  /\ UNCHANGED <<mounted, isStreaming, facingMode, mountTimer, restartTimers, switched>>
  /\ UNCHANGED <<envVars, callVars, gateVars, screenVars, normVars, migVars>>

\* getUserMedia rejects: the catch block of startCamera.
MediaRejects(i) ==
  /\ i \in pendingMedia
  /\ media' = [media EXCEPT ![i].st = "rejected"]
  /\ isStreaming' = setIsStreaming(FALSE)
  /\ UNCHANGED <<mounted, facingMode, streamRef, mountTimer, restartTimers, showTimers,
                 mediaEvents, switched>>
  /\ UNCHANGED <<envVars, callVars, gateVars, screenVars, normVars, migVars>>

\* setTimeout(showVideo, 100) fires.
ShowVideoTimer ==
  /\ showTimers > 0
  /\ showTimers' = showTimers - 1
  /\ isStreaming' = setIsStreaming(TRUE)
  /\ UNCHANGED <<mounted, facingMode, streamRef, media, mountTimer, restartTimers,
                 mediaEvents, switched>>
  /\ UNCHANGED <<envVars, callVars, gateVars, screenVars, normVars, migVars>>

\* onloadedmetadata or oncanplay of the video element: showVideo.
ShowVideoEvent ==
  /\ mounted
  /\ streamRef # 0
  /\ mediaEvents > 0
  /\ mediaEvents' = mediaEvents - 1
  /\ isStreaming' = TRUE
  /\ UNCHANGED <<mounted, facingMode, streamRef, media, mountTimer, restartTimers,
                 showTimers, switched>>
  /\ UNCHANGED <<envVars, callVars, gateVars, screenVars, normVars, migVars>>

\* The switch button: stopCamera(), setFacingMode(toggle); then the render, and the
\* effect on [facingMode, startCamera, stopCamera]: if (isStreaming) { stopCamera();
\* setTimeout(startCamera, 100) }.
SwitchCamera ==
  /\ mounted
  /\ Len(restartTimers) < MaxTimers
  /\ media' = stoppedMedia
  /\ streamRef' = 0
  /\ mediaEvents' = stoppedEvents
  /\ isStreaming' = stoppedStreaming
  /\ facingMode' = otherFacingMode(facingMode)
  /\ restartTimers' = IF restartWanted(isStreaming, stoppedStreaming)
                      THEN Append(restartTimers, otherFacingMode(facingMode))
                      ELSE restartTimers
  /\ switched' = (switched \/ (isStreaming /\ streamRef \in liveStreams))
  /\ UNCHANGED <<mounted, mountTimer, showTimers>>
  /\ UNCHANGED <<envVars, callVars, gateVars, screenVars, normVars, migVars>>

\* The capture button (enabled while isStreaming): onCapture, then stopCamera.
CapturePhoto ==
  /\ mounted
  /\ isStreaming
  /\ media' = stoppedMedia
  /\ streamRef' = 0
  /\ mediaEvents' = stoppedEvents
  /\ isStreaming' = stoppedStreaming
  /\ switched' = FALSE
  /\ UNCHANGED <<mounted, facingMode, mountTimer, restartTimers, showTimers>>
  /\ UNCHANGED <<envVars, callVars, gateVars, screenVars, normVars, migVars>>

\* The component is unmounted: the cleanup of the mount effect clears its timer and
\* calls stopCamera; the state of the component is gone.
Unmount ==
  /\ mounted
  /\ mounted' = FALSE
  /\ mountTimer' = FALSE
  /\ media' = stoppedMedia
  /\ streamRef' = 0
  /\ mediaEvents' = 0
  /\ isStreaming' = FALSE
  /\ switched' = FALSE
  /\ UNCHANGED <<facingMode, restartTimers, showTimers>>
  /\ UNCHANGED <<envVars, callVars, gateVars, screenVars, normVars, migVars>>

NextCamera ==
  \/ MountTimer
  \/ RestartTimer
  \/ \E i \in 1..MaxMedia : MediaResolves(i)
  \/ \E i \in 1..MaxMedia : MediaRejects(i)
  \/ ShowVideoTimer
  \/ ShowVideoEvent
  \/ SwitchCamera
  \/ CapturePhoto
  \/ Unmount

SpecCamera == InitCamera /\ [][NextCamera]_vars

\* Timers fire, and getUserMedia settles.
CameraFairness ==
  /\ WF_vars(MountTimer)
  /\ WF_vars(RestartTimer)
  /\ WF_vars(ShowVideoTimer)
  /\ WF_vars(\E i \in 1..MaxMedia : MediaResolves(i) \/ MediaRejects(i))

SpecCameraLive == SpecCamera /\ CameraFairness

(***************************************************************************)
(* C28.  One camera instance at a time.                                    *)
(***************************************************************************)
\* C28 as stated: at most one obtained stream is un-stopped at a time, and with
\* streamRef empty again (after stopCamera) or the component unmounted none is.
C28_SingleInstance ==
  /\ Cardinality(liveStreams) <= 1
  /\ (streamRef = 0 \/ ~mounted) => liveStreams = {}

\* The component was unmounted while getUserMedia was pending, and the stream
\* obtained afterwards is running.
C28_Witness ==
  /\ ~mounted
  /\ streamRef = 0
  /\ liveStreams # {}

\* Two streams of the mounted component are running: the one streamRef held was
\* overwritten by the second resolution.
C28_TwoStreams ==
  /\ mounted
  /\ Cardinality(liveStreams) = 2

(***************************************************************************)
(* C29.  The switch stops the camera and sets isStreaming to false in the  *)
(* same batch as the new facing mode, so the effect that would restart the *)
(* camera finds isStreaming false.                                         *)
(***************************************************************************)
C29_Restarted ==
  /\ isStreaming
  /\ streamRef \in liveStreams
  /\ media[streamRef].mode = facingMode

C29_Excused ==
  \/ ~mounted
  \/ \E i \in 1..Len(media) : media[i].st = "rejected"
  \/ Len(media) = MaxMedia

\* C29 as stated: after switchCamera while the camera is streaming, the camera
\* eventually streams again with the new facing mode (unless the component is
\* unmounted or getUserMedia fails).
C29_RestartsAfterSwitch == switched ~> (C29_Restarted \/ C29_Excused)

\* After the switch nothing is pending that would start the camera.
C29_Witness ==
  /\ switched
  /\ mounted
  /\ streamRef = 0
  /\ pendingMedia = {}
  /\ restartTimers = <<>>
  /\ ~mountTimer
  /\ showTimers = 0
  /\ facingMode = "user"

(***************************************************************************)
(* C30.  The extraction state of the capture screen.                       *)
(***************************************************************************)
\* The fields that tell the shapes apart: a generic record has itemName, the three
\* form records have items.
C30_ShapeMatches(ft, data) ==
  /\ data.t = "obj"
  /\ IF ft = "Generic" THEN "itemName" \in DOMAIN data.o ELSE "items" \in DOMAIN data.o

\* C30 as stated: the extraction state always has one of the four form types and a
\* data object of that form type's shape.
C30_TaggedDataMatches ==
  /\ extractedData.formType \in FormTypes
  /\ C30_ShapeMatches(extractedData.formType, extractedData.data)

\* After Retake Photo the state has neither a formType nor a data object.
C30_Witness ==
  /\ pc = "applied"
  /\ extractedData.formType \notin FormTypes
  /\ extractedData.data = Undef
  /\ selectedFormType \in SpecificForms

\* Processing failed in the screen under a hand-selected form type: its tag with a
\* generic data object.
C30_FailedUnderSelection ==
  /\ pc = "applied"
  /\ detectedFormType = "null"
  /\ extractedData.formType \in SpecificForms
  /\ "itemName" \in DOMAIN extractedData.data.o

====
